---- MODULE Spec2Model ----
(***************************************************************************)
(* Model of the form-selection assistant of forms-mcp-poc:                 *)
(*   - the template catalog          (src/build/form-templates.js)         *)
(*   - the elicitation engine        (src/src/elicitation-engine.ts 62-293)*)
(*   - the discovery engine          (src/src/elicitation-engine.ts 342-563)*)
(* JavaScript strings are TLC strings; the string methods the code calls   *)
(* (trim, toLowerCase, includes, join, RegExp.test) are computed character *)
(* by character.  A JavaScript object used as a string-keyed map is a      *)
(* sequence of [key, value] entries in insertion order.                    *)
(***************************************************************************)
EXTENDS Integers, Sequences, FiniteSets, TLC

VARIABLES
  elicitationState,   \* ElicitationEngine.currentState of the elicitation engine
  discoveryState,     \* ElicitationEngine.currentState of the discovery engine
  lastIndex,          \* lastIndex of each pattern of FORM_KEYWORDS
  requestText,        \* the text the matcher or the validator is called with
  formSchema,         \* the elicitationSchema the validator's question comes from
  call,               \* the operation last called, with its argument
  ret                 \* what that call returned

vars == <<elicitationState, discoveryState, lastIndex, requestText, formSchema, call, ret>>

(***************************************************************************)
(* JavaScript values                                                       *)
(***************************************************************************)
\* null / undefined where an object is expected
Null == [isNull |-> TRUE]

\* null where a string is expected (DiscoveryState.currentQuestionId)
NullId == "<null>"

(***************************************************************************)
(* String.prototype methods                                                *)
(***************************************************************************)
UpperCaseLetters == "ABCDEFGHIJKLMNOPQRSTUVWXYZ"

LowerCaseLetters == "abcdefghijklmnopqrstuvwxyz"

Digits == "0123456789"

CharAt(s, i) == SubSeq(s, i, i)

IsWhiteSpace(c) == c \in {" ", "\t", "\n", "\r"}

IsDigit(c) == \E i \in 1..10 : CharAt(Digits, i) = c

DigitValue(c) == (CHOOSE i \in 1..10 : CharAt(Digits, i) = c) - 1

\* the lower-case letter of each upper-case letter
LowerOf ==
  [c \in {CharAt(UpperCaseLetters, i) : i \in 1..26} |->
     CharAt(LowerCaseLetters, CHOOSE i \in 1..26 : CharAt(UpperCaseLetters, i) = c)]

LowerChar(c) == IF c \in DOMAIN LowerOf THEN LowerOf[c] ELSE c

\* every character mapped by LowerChar; the string is split in halves so that
\* the evaluation depth stays logarithmic in its length
RECURSIVE toLowerCase(_)
toLowerCase(s) ==
  IF Len(s) = 0 THEN ""
  ELSE IF Len(s) = 1 THEN LowerChar(s)
  ELSE toLowerCase(SubSeq(s, 1, Len(s) \div 2))
         \o toLowerCase(SubSeq(s, Len(s) \div 2 + 1, Len(s)))

RECURSIVE trimStart(_)
trimStart(s) ==
  IF s # "" /\ IsWhiteSpace(CharAt(s, 1)) THEN trimStart(SubSeq(s, 2, Len(s))) ELSE s

RECURSIVE trimEnd(_)
trimEnd(s) ==
  IF s # "" /\ IsWhiteSpace(CharAt(s, Len(s)))
  THEN trimEnd(SubSeq(s, 1, Len(s) - 1))
  ELSE s

trim(s) == trimEnd(trimStart(s))

includes(s, sub) ==
  \E i \in 1..(Len(s) - Len(sub) + 1) : SubSeq(s, i, i + Len(sub) - 1) = sub

RECURSIVE join(_, _)
join(list, sep) ==
  IF Len(list) = 0 THEN ""
  ELSE IF Len(list) = 1 THEN list[1]
  ELSE list[1] \o sep \o join(Tail(list), sep)

\* Array.prototype.includes
arrayIncludes(list, x) == \E i \in 1..Len(list) : list[i] = x

(***************************************************************************)
(* Objects used as maps: Record<string, string>                            *)
(***************************************************************************)
EmptyObject == <<>>

ObjectHas(obj, k) == \E i \in 1..Len(obj) : obj[i].key = k

ObjectGet(obj, k) == obj[CHOOSE i \in 1..Len(obj) : obj[i].key = k].value

ObjectSet(obj, k, v) ==
  IF ObjectHas(obj, k)
  THEN [i \in 1..Len(obj) |-> IF obj[i].key = k THEN [key |-> k, value |-> v] ELSE obj[i]]
  ELSE Append(obj, [key |-> k, value |-> v])

ObjectKeys(obj) == [i \in 1..Len(obj) |-> obj[i].key]

ObjectValues(obj) == [i \in 1..Len(obj) |-> obj[i].value]

(***************************************************************************)
(* Template catalog.  Only what the engines read is kept: description,     *)
(* scenarios, enumNames and default are display data.  properties is the   *)
(* schema's property list in declaration order (Object.entries order).     *)
(***************************************************************************)
FORM_TEMPLATES ==
  <<
    [ id |-> "beneficiary-change",
      title |-> "Beneficiary Change Request",
      keywords |-> <<"beneficiary", "change beneficiary", "update beneficiary",
                     "new beneficiary", "primary beneficiary", "secondary beneficiary",
                     "heir", "inheritance">>,
      elicitationSchema |->
        [ properties |-> <<
            [name |-> "policyNumber", type |-> "string", title |-> "Policy Number", minLength |-> 6, maxLength |-> 20],
            [name |-> "policyholderName", type |-> "string", title |-> "Policyholder Name", minLength |-> 2, maxLength |-> 100],
            [name |-> "currentBeneficiary", type |-> "string", title |-> "Current Beneficiary", minLength |-> 2, maxLength |-> 100],
            [name |-> "newBeneficiaryName", type |-> "string", title |-> "New Beneficiary Name", minLength |-> 2, maxLength |-> 100],
            [name |-> "relationship", type |-> "string", title |-> "Relationship",
             enum |-> <<"Spouse", "Child", "Parent", "Sibling", "Other">>],
            [name |-> "beneficiaryDob", type |-> "string", format |-> "date", title |-> "Beneficiary Date of Birth"],
            [name |-> "percentage", type |-> "number", title |-> "Percentage", minimum |-> 1, maximum |-> 100] >>,
          required |-> <<"policyNumber", "policyholderName", "currentBeneficiary", "newBeneficiaryName",
                         "relationship", "beneficiaryDob", "percentage">> ] ],
    [ id |-> "loan-form",
      title |-> "Policy Loan Application",
      keywords |-> <<"loan", "borrow", "policy loan",
                     "cash advance", "loan against policy", "policy value",
                     "cash value loan">>,
      elicitationSchema |->
        [ properties |-> <<
            [name |-> "policyNumber", type |-> "string", title |-> "Policy Number", minLength |-> 6, maxLength |-> 20],
            [name |-> "policyholderName", type |-> "string", title |-> "Policyholder Name", minLength |-> 2, maxLength |-> 100],
            [name |-> "loanAmount", type |-> "string", title |-> "Loan Amount", minLength |-> 1, maxLength |-> 20],
            [name |-> "loanPurpose", type |-> "string", title |-> "Loan Purpose",
             enum |-> <<"Home improvement", "Education", "Medical expenses", "Business investment", "Debt consolidation", "Other">>],
            [name |-> "disbursementMethod", type |-> "string", title |-> "Disbursement Method",
             enum |-> <<"Direct deposit", "Check by mail", "Wire transfer">>] >>,
          required |-> <<"policyNumber", "policyholderName", "loanAmount", "loanPurpose",
                         "disbursementMethod">> ] ],
    [ id |-> "reinstatement-application",
      title |-> "Policy Reinstatement Application",
      keywords |-> <<"reinstate", "reinstatement", "lapsed policy",
                     "restore policy", "reactivate", "policy lapsed",
                     "bring back policy">>,
      elicitationSchema |->
        [ properties |-> <<
            [name |-> "policyNumber", type |-> "string", title |-> "Policy Number", minLength |-> 6, maxLength |-> 20],
            [name |-> "policyholderName", type |-> "string", title |-> "Policyholder Name", minLength |-> 2, maxLength |-> 100],
            [name |-> "lapseDate", type |-> "string", format |-> "date", title |-> "Lapse Date"],
            [name |-> "reasonForLapse", type |-> "string", title |-> "Reason for Lapse",
             enum |-> <<"Financial hardship", "Forgot to pay", "Changed address", "Other">>],
            [name |-> "healthChanged", type |-> "boolean", title |-> "Health Status Changed"] >>,
          required |-> <<"policyNumber", "policyholderName", "lapseDate", "reasonForLapse",
                         "healthChanged">> ] ],
    [ id |-> "surrender-form",
      title |-> "Policy Surrender Form",
      keywords |-> <<"surrender", "cash out", "cancel policy",
                     "terminate policy", "cash surrender", "policy surrender",
                     "cash value">>,
      elicitationSchema |->
        [ properties |-> <<
            [name |-> "policyNumber", type |-> "string", title |-> "Policy Number", minLength |-> 6, maxLength |-> 20],
            [name |-> "policyholderName", type |-> "string", title |-> "Policyholder Name", minLength |-> 2, maxLength |-> 100],
            [name |-> "surrenderType", type |-> "string", title |-> "Surrender Type",
             enum |-> <<"Full surrender", "Partial surrender">>],
            [name |-> "surrenderAmount", type |-> "string", title |-> "Surrender Amount", minLength |-> 0, maxLength |-> 20],
            [name |-> "reason", type |-> "string", title |-> "Reason for Surrender",
             enum |-> <<"Financial need", "No longer needed", "Found better coverage", "Other">>] >>,
          required |-> <<"policyNumber", "policyholderName", "surrenderType", "reason">> ] ],
    [ id |-> "non-forfeiture-option",
      title |-> "Non-Forfeiture Option Change",
      keywords |-> <<"non-forfeiture", "forfeiture option", "paid-up",
                     "extended term", "cash surrender option", "policy options">>,
      elicitationSchema |->
        [ properties |-> <<
            [name |-> "policyNumber", type |-> "string", title |-> "Policy Number", minLength |-> 6, maxLength |-> 20],
            [name |-> "policyholderName", type |-> "string", title |-> "Policyholder Name", minLength |-> 2, maxLength |-> 100],
            [name |-> "currentOption", type |-> "string", title |-> "Current Option",
             enum |-> <<"Cash surrender", "Reduced paid-up", "Extended term", "Unknown">>],
            [name |-> "newOption", type |-> "string", title |-> "New Option",
             enum |-> <<"Cash surrender", "Reduced paid-up", "Extended term">>] >>,
          required |-> <<"policyNumber", "policyholderName", "currentOption", "newOption">> ] ],
    [ id |-> "annuity-contract-change",
      title |-> "Annuity Contract Change Request",
      keywords |-> <<"annuity", "contract change", "annuity change",
                     "payment frequency", "investment allocation", "annuity contract">>,
      elicitationSchema |->
        [ properties |-> <<
            [name |-> "contractNumber", type |-> "string", title |-> "Contract Number", minLength |-> 6, maxLength |-> 20],
            [name |-> "contractHolderName", type |-> "string", title |-> "Contract Holder Name", minLength |-> 2, maxLength |-> 100],
            [name |-> "changeType", type |-> "string", title |-> "Change Type",
             enum |-> <<"Beneficiary change", "Payment frequency", "Investment allocation", "Address change", "Other">>],
            [name |-> "changeDetails", type |-> "string", title |-> "Change Details", minLength |-> 10, maxLength |-> 500],
            [name |-> "effectiveDate", type |-> "string", format |-> "date", title |-> "Effective Date"] >>,
          required |-> <<"contractNumber", "contractHolderName", "changeType", "changeDetails",
                         "effectiveDate">> ] ],
    [ id |-> "amendment-request",
      title |-> "Policy Amendment Request",
      keywords |-> <<"amendment", "policy amendment", "change policy",
                     "modify policy", "coverage change", "rider",
                     "policy modification">>,
      elicitationSchema |->
        [ properties |-> <<
            [name |-> "policyNumber", type |-> "string", title |-> "Policy Number", minLength |-> 6, maxLength |-> 20],
            [name |-> "policyholderName", type |-> "string", title |-> "Policyholder Name", minLength |-> 2, maxLength |-> 100],
            [name |-> "amendmentType", type |-> "string", title |-> "Amendment Type",
             enum |-> <<"Coverage increase", "Coverage decrease", "Rider addition", "Rider removal", "Other">>],
            [name |-> "amendmentDetails", type |-> "string", title |-> "Amendment Details", minLength |-> 10, maxLength |-> 500],
            [name |-> "justification", type |-> "string", title |-> "Justification", minLength |-> 10, maxLength |-> 300] >>,
          required |-> <<"policyNumber", "policyholderName", "amendmentType", "amendmentDetails",
                         "justification">> ] ]
  >>

\* a schema that declares nothing: schema.properties || {}, schema.required || []
EmptySchema == [properties |-> <<>>, required |-> <<>>]

getAvailableForms == [i \in 1..Len(FORM_TEMPLATES) |-> FORM_TEMPLATES[i].id]

\* Array.prototype.find over the catalog: the first template with that id
HasTemplate(formId) == \E i \in 1..Len(FORM_TEMPLATES) : FORM_TEMPLATES[i].id = formId

\* a lookup that trims the id before it compares
getFormTemplate_Trimmed(formId) ==
  LET found == {i \in 1..Len(FORM_TEMPLATES) : FORM_TEMPLATES[i].id = trim(formId)}
  IN IF found = {} THEN Null
     ELSE FORM_TEMPLATES[CHOOSE i \in found : \A j \in found : i <= j]

getFormTemplate(formId) ==
  IF HasTemplate(formId)
  THEN LET found == {i \in 1..Len(FORM_TEMPLATES) : FORM_TEMPLATES[i].id = formId}
       IN FORM_TEMPLATES[CHOOSE i \in found : \A j \in found : i <= j]
  ELSE Null

(***************************************************************************)
(* Elicitation engine: questions derived from a schema                     *)
(***************************************************************************)
\* a choice of type that looks at the format before the schema type
QuestionType_DateFirst(field) ==
  IF "format" \in DOMAIN field /\ field.format = "date" THEN "date"
  ELSE IF field.type = "boolean" THEN "boolean"
  ELSE IF "enum" \in DOMAIN field THEN "select"
  ELSE "text"

\* the type chosen for one schema field (boolean, else date, else select, else text)
QuestionType(field) ==
  IF field.type = "boolean" THEN "boolean"
  ELSE IF "format" \in DOMAIN field /\ field.format = "date" THEN "date"
  ELSE IF "enum" \in DOMAIN field THEN "select"
  ELSE "text"

\* a validation record that carries the length bounds only
ValidationOf_LengthsOnly(field) ==
  [k \in {"minLength", "maxLength"} \cap DOMAIN field |-> field[k]]

\* the validation record carries the four bounds the schema declares;
\* a bound the schema does not declare is undefined (absent here)
ValidationOf(field) ==
  [k \in {"minLength", "maxLength", "minimum", "maximum"} \cap DOMAIN field |-> field[k]]

QuestionOf(field, required) ==
  IF QuestionType(field) = "select"
  THEN [fieldName |-> field.name, question |-> field.title, type |-> "select",
        required |-> arrayIncludes(required, field.name),
        options |-> field.enum, validation |-> ValidationOf(field)]
  ELSE [fieldName |-> field.name, question |-> field.title, type |-> QuestionType(field),
        required |-> arrayIncludes(required, field.name),
        validation |-> ValidationOf(field)]

\* a question list that leaves the optional fields out
convertSchemaToQuestions_RequiredOnly(schema) ==
  LET asked == SelectSeq(schema.properties,
                         LAMBDA field : arrayIncludes(schema.required, field.name))
  IN [i \in 1..Len(asked) |-> QuestionOf(asked[i], schema.required)]

convertSchemaToQuestions(schema) ==
  [i \in 1..Len(schema.properties) |-> QuestionOf(schema.properties[i], schema.required)]

(***************************************************************************)
(* Answer validator                                                        *)
(***************************************************************************)
\* /^\d{4}-\d{2}-\d{2}$/.test(answer)
dateRegexTest(answer) ==
  /\ Len(answer) = 10
  /\ \A i \in {1, 2, 3, 4, 6, 7, 9, 10} : IsDigit(CharAt(answer, i))
  /\ CharAt(answer, 5) = "-"
  /\ CharAt(answer, 8) = "-"

TwoDigits(s, i) == 10 * DigitValue(CharAt(s, i)) + DigitValue(CharAt(s, i + 1))

\* isNaN(new Date(answer).getTime()) for an answer of the form dddd-dd-dd, as
\* Node's date parser decides it: the month must be 01..12 and the day 01..31
\* (a day past the end of a shorter month rolls over into the next month).
dateIsNaN(answer) ==
  ~ (TwoDigits(answer, 6) \in 1..12 /\ TwoDigits(answer, 9) \in 1..31)

validateDate(answer) ==
  IF ~dateRegexTest(answer)
  THEN [valid |-> FALSE, error |-> "Please enter date in YYYY-MM-DD format"]
  ELSE IF dateIsNaN(answer)
  THEN [valid |-> FALSE, error |-> "Please enter a valid date"]
  ELSE [valid |-> TRUE, processedValue |-> answer]

\* a boolean validator that compares the answer in the casing it was typed in
validateBoolean_CaseSensitive(answer) ==
  LET normalized == trim(answer)
  IN IF normalized \in {"true", "yes", "y", "1"}
     THEN [valid |-> TRUE, processedValue |-> "true"]
     ELSE IF normalized \in {"false", "no", "n", "0"}
     THEN [valid |-> TRUE, processedValue |-> "false"]
     ELSE [valid |-> FALSE, error |-> "Please enter yes/no, true/false, or y/n"]

validateBoolean(answer) ==
  LET normalized == trim(toLowerCase(answer))
  IN IF normalized \in {"true", "yes", "y", "1"}
     THEN [valid |-> TRUE, processedValue |-> "true"]
     ELSE IF normalized \in {"false", "no", "n", "0"}
     THEN [valid |-> TRUE, processedValue |-> "false"]
     ELSE [valid |-> FALSE, error |-> "Please enter yes/no, true/false, or y/n"]

\* a choice validator that compares the answer in the casing it was typed in
validateSelect_CaseSensitive(question, answer) ==
  IF "options" \notin DOMAIN question
  THEN [valid |-> FALSE, error |-> "No options available for this question"]
  ELSE LET matching == {i \in 1..Len(question.options) : question.options[i] = trim(answer)}
       IN IF matching = {}
          THEN [valid |-> FALSE,
                error |-> "Please select one of: " \o join(question.options, ", ")]
          ELSE [valid |-> TRUE,
                processedValue |->
                  question.options[CHOOSE i \in matching : \A j \in matching : i <= j]]

validateSelect(question, answer) ==
  IF "options" \notin DOMAIN question
  THEN [valid |-> FALSE, error |-> "No options available for this question"]
  ELSE LET normalizedAnswer == trim(answer)
           lowerAnswer == toLowerCase(normalizedAnswer)
           matching == {i \in 1..Len(question.options) :
                          toLowerCase(question.options[i]) = lowerAnswer}
       IN IF matching = {}
          THEN [valid |-> FALSE,
                error |-> "Please select one of: " \o join(question.options, ", ")]
          ELSE [valid |-> TRUE,
                processedValue |->
                  question.options[CHOOSE i \in matching : \A j \in matching : i <= j]]

\* question.validation?.minLength && ... : an undefined bound and a bound of 0
\* are both falsy and switch the comparison off
Declared(question, bound) ==
  bound \in DOMAIN question.validation /\ question.validation[bound] # 0

validateText(question, answer) ==
  LET trimmed == trim(answer)
  IN IF Declared(question, "minLength") /\ Len(trimmed) < question.validation.minLength
     THEN [valid |-> FALSE,
           error |-> "Minimum length is " \o ToString(question.validation.minLength)
                       \o " characters"]
     ELSE IF Declared(question, "maxLength") /\ Len(trimmed) > question.validation.maxLength
     THEN [valid |-> FALSE,
           error |-> "Maximum length is " \o ToString(question.validation.maxLength)
                       \o " characters"]
     ELSE [valid |-> TRUE, processedValue |-> trimmed]

isEmptyAnswer(answer) == answer = "" \/ trim(answer) = ""

\* a validator that dispatches on the type before it looks at an empty
\* answer to an optional question
validateAnswer_TypeFirst(question, answer) ==
  IF question.required /\ isEmptyAnswer(answer)
  THEN [valid |-> FALSE, error |-> "This field is required"]
  ELSE CASE question.type = "date" -> validateDate(answer)
         [] question.type = "boolean" -> validateBoolean(answer)
         [] question.type = "select" -> validateSelect(question, answer)
         [] OTHER -> validateText(question, answer)

validateAnswer(question, answer) ==
  IF question.required /\ isEmptyAnswer(answer)
  THEN [valid |-> FALSE, error |-> "This field is required"]
  ELSE IF ~question.required /\ isEmptyAnswer(answer)
  THEN [valid |-> TRUE, processedValue |-> ""]
  ELSE CASE question.type = "date" -> validateDate(answer)
         [] question.type = "boolean" -> validateBoolean(answer)
         [] question.type = "select" -> validateSelect(question, answer)
         [] OTHER -> validateText(question, answer)

(***************************************************************************)
(* Elicitation engine: operations.  Each operation is a function of the    *)
(* engine's currentState (and its argument) that gives the state after the *)
(* call and the value returned.                                            *)
(***************************************************************************)
Outcome(state, result) == [state |-> state, result |-> result]

\* a start that installs the session before it looks the template up
startElicitation_SessionFirst(state, formId) ==
  LET template == getFormTemplate(formId)
  IN IF template = Null
     THEN Outcome([formId |-> formId,
                   formTitle |-> "",
                   currentQuestionIndex |-> 0,
                   answers |-> EmptyObject,
                   isComplete |-> FALSE,
                   questions |-> <<>>],
                  [success |-> FALSE,
                   error |-> "Form template not found: " \o formId])
     ELSE Outcome([formId |-> template.id,
                   formTitle |-> template.title,
                   currentQuestionIndex |-> 0,
                   answers |-> EmptyObject,
                   isComplete |-> FALSE,
                   questions |-> convertSchemaToQuestions(template.elicitationSchema)],
                  [success |-> TRUE])

\* a start that carries the answers of the session it replaces
startElicitation_KeepsAnswers(state, formId) ==
  LET template == getFormTemplate(formId)
  IN IF template = Null
     THEN Outcome(state, [success |-> FALSE,
                          error |-> "Form template not found: " \o formId])
     ELSE Outcome([formId |-> template.id,
                   formTitle |-> template.title,
                   currentQuestionIndex |-> 0,
                   answers |-> IF state = Null THEN EmptyObject ELSE state.answers,
                   isComplete |-> FALSE,
                   questions |-> convertSchemaToQuestions(template.elicitationSchema)],
                  [success |-> TRUE])

\* a start that drops the session in progress when the template is unknown
startElicitation_DropsOnFailure(state, formId) ==
  LET template == getFormTemplate(formId)
  IN IF template = Null
     THEN Outcome(Null, [success |-> FALSE,
                         error |-> "Form template not found: " \o formId])
     ELSE Outcome([formId |-> template.id,
                   formTitle |-> template.title,
                   currentQuestionIndex |-> 0,
                   answers |-> EmptyObject,
                   isComplete |-> FALSE,
                   questions |-> convertSchemaToQuestions(template.elicitationSchema)],
                  [success |-> TRUE])

startElicitation(state, formId) ==
  LET template == getFormTemplate(formId)
  IN IF template = Null
     THEN Outcome(state, [success |-> FALSE,
                          error |-> "Form template not found: " \o formId])
     ELSE Outcome([formId |-> template.id,
                   formTitle |-> template.title,
                   currentQuestionIndex |-> 0,
                   answers |-> EmptyObject,
                   isComplete |-> FALSE,
                   questions |-> convertSchemaToQuestions(template.elicitationSchema)],
                  [success |-> TRUE])

\* startElicitation in an engine constructed with formTemplates:
\* this.formTemplates.find(t => t.id === formId) over the constructor's array
FindTemplate(formTemplates, formId) ==
  LET found == {i \in 1..Len(formTemplates) : formTemplates[i].id = formId}
  IN IF found = {} THEN Null
     ELSE formTemplates[CHOOSE i \in found : \A j \in found : i <= j]

StartedWith(state, template, formId) ==
  IF template = Null
  THEN Outcome(state, [success |-> FALSE,
                       error |-> "Form template not found: " \o formId])
  ELSE Outcome([formId |-> template.id,
                formTitle |-> template.title,
                currentQuestionIndex |-> 0,
                answers |-> EmptyObject,
                isComplete |-> FALSE,
                questions |-> convertSchemaToQuestions(template.elicitationSchema)],
               [success |-> TRUE])

startElicitationIn(formTemplates, state, formId) ==
  StartedWith(state, FindTemplate(formTemplates, formId), formId)

Elicitation_getCurrentQuestion(state) ==
  IF state = Null \/ state.isComplete
  THEN Outcome(state, Null)
  ELSE IF state.currentQuestionIndex >= Len(state.questions)
  THEN Outcome([state EXCEPT !.isComplete = TRUE], Null)
  ELSE Outcome(state, state.questions[state.currentQuestionIndex + 1])

\* validation.processedValue || answer
StoredValue(validation, answer) ==
  IF validation.processedValue # "" THEN validation.processedValue ELSE answer

\* if (!validation.valid) return { success: false, error: validation.error }
RejectAnswer_SkipsQuestion(state, validation) ==
  Outcome([state EXCEPT !.currentQuestionIndex = @ + 1],
          [success |-> FALSE, error |-> validation.error])

RejectAnswer(state, validation) ==
  Outcome(state, [success |-> FALSE, error |-> validation.error])

\* store the answer, move to the next question, check if complete
AcceptAnswer_CompletesLate(state, fieldName, value) ==
  LET stored == [state EXCEPT !.answers = ObjectSet(@, fieldName, value),
                              !.currentQuestionIndex = @ + 1]
  IN IF stored.currentQuestionIndex > Len(stored.questions)
     THEN Outcome([stored EXCEPT !.isComplete = TRUE],
                  [success |-> TRUE, completed |-> TRUE])
     ELSE Outcome(stored, [success |-> TRUE, completed |-> FALSE])

\* an acceptance that stores only values that are not empty
AcceptAnswer_SkipsEmpty(state, fieldName, value) ==
  LET stored == [state EXCEPT !.answers = IF value = "" THEN @
                                          ELSE ObjectSet(@, fieldName, value),
                              !.currentQuestionIndex = @ + 1]
  IN IF stored.currentQuestionIndex >= Len(stored.questions)
     THEN Outcome([stored EXCEPT !.isComplete = TRUE],
                  [success |-> TRUE, completed |-> TRUE])
     ELSE Outcome(stored, [success |-> TRUE, completed |-> FALSE])

AcceptAnswer(state, fieldName, value) ==
  LET stored == [state EXCEPT !.answers = ObjectSet(@, fieldName, value),
                              !.currentQuestionIndex = @ + 1]
  IN IF stored.currentQuestionIndex >= Len(stored.questions)
     THEN Outcome([stored EXCEPT !.isComplete = TRUE],
                  [success |-> TRUE, completed |-> TRUE])
     ELSE Outcome(stored, [success |-> TRUE, completed |-> FALSE])

Elicitation_processAnswer(state, answer) ==
  IF state = Null
  THEN Outcome(state, [success |-> FALSE, error |-> "No active elicitation session"])
  ELSE
    LET current == Elicitation_getCurrentQuestion(state)
        currentQuestion == current.result
    IN IF currentQuestion = Null
       THEN Outcome(current.state,
                    [success |-> FALSE,
                     error |-> "No current question or elicitation complete"])
       ELSE
         LET validation == validateAnswer(currentQuestion, answer)
         IN IF ~validation.valid
            THEN RejectAnswer(current.state, validation)
            ELSE AcceptAnswer(current.state, currentQuestion.fieldName,
                              StoredValue(validation, answer))

getElicitationState(state) == Outcome(state, state)

Elicitation_getProgress(state) ==
  IF state = Null
  THEN Outcome(state, [answered |-> 0, remaining |-> 0, total |-> 0, percentage |-> 0])
  ELSE LET answered == state.currentQuestionIndex
           total == Len(state.questions)
       IN Outcome(state,
                  [answered |-> answered,
                   remaining |-> total - answered,
                   total |-> total,
                   \* Math.round((answered / total) * 100)
                   percentage |-> IF total > 0
                                  THEN (200 * answered + total) \div (2 * total)
                                  ELSE 0])

\* a reset that clears the session's progress but keeps the session
resetElicitation_KeepsSession(state) ==
  IF state = Null THEN Outcome(Null, Null)
  ELSE Outcome([state EXCEPT !.answers = EmptyObject, !.isComplete = TRUE], Null)

resetElicitation(state) == Outcome(Null, Null)

Elicitation_getFormSummary(state) ==
  IF state = Null
  THEN Outcome(state, Null)
  ELSE Outcome(state, [formId |-> state.formId,
                       formTitle |-> state.formTitle,
                       answers |-> state.answers,
                       completed |-> state.isComplete])

(***************************************************************************)
(* Discovery engine: the question graph                                    *)
(***************************************************************************)
Entry(k, v) == [key |-> k, value |-> v]

createDiscoveryQuestions ==
  << [ id |-> "intent",
       question |-> "What would you like to do with your insurance policy?",
       type |-> "select",
       options |-> << "Change beneficiary information",
                      "Take a loan against my policy",
                      "Surrender my policy",
                      "Change policy details",
                      "Apply for reinstatement",
                      "Other" >>,
       followUp |-> << Entry("Change beneficiary information", "beneficiary-type"),
                       Entry("Take a loan against my policy", "loan-type"),
                       Entry("Surrender my policy", "surrender-type"),
                       Entry("Change policy details", "change-type"),
                       Entry("Apply for reinstatement", "reinstatement-reason"),
                       Entry("Other", "describe-need") >> ],
     [ id |-> "beneficiary-type",
       question |-> "What type of beneficiary change do you need?",
       type |-> "select",
       options |-> << "Change primary beneficiary",
                      "Add or change contingent beneficiary",
                      "Update beneficiary percentage",
                      "All of the above" >> ],
     [ id |-> "loan-type",
       question |-> "What type of loan are you looking for?",
       type |-> "select",
       options |-> << "Policy loan (borrow against cash value)",
                      "Automatic premium loan",
                      "Other loan option" >> ],
     [ id |-> "surrender-type",
       question |-> "What type of surrender are you considering?",
       type |-> "select",
       options |-> << "Full surrender (cancel policy)",
                      "Partial surrender (withdraw some cash value)",
                      "Non-forfeiture option (keep some benefits)" >> ],
     [ id |-> "change-type",
       question |-> "What policy details would you like to change?",
       type |-> "select",
       options |-> << "Contact information",
                      "Payment method or frequency",
                      "Coverage amount",
                      "Policy options or riders",
                      "Other changes" >> ],
     [ id |-> "reinstatement-reason",
       question |-> "Why do you need to reinstate your policy?",
       type |-> "select",
       options |-> << "Policy lapsed due to non-payment",
                      "Policy was surrendered and I want it back",
                      "Other reinstatement situation" >> ],
     [ id |-> "describe-need",
       question |-> "Please describe what you need help with:",
       type |-> "text" ] >>

discoveryQuestions == createDiscoveryQuestions

(***************************************************************************)
(* Property lookup obj[key] on an object literal: an own property gives    *)
(* its value; otherwise the lookup goes to Object.prototype, whose members *)
(* are functions/objects (truthy, and equal to no string); otherwise the   *)
(* value is undefined.                                                     *)
(***************************************************************************)
ObjectPrototypeKeys ==
  {"constructor", "toString", "toLocaleString", "valueOf", "hasOwnProperty",
   "isPrototypeOf", "propertyIsEnumerable", "__proto__", "__defineGetter__",
   "__defineSetter__", "__lookupGetter__", "__lookupSetter__"}

Undefined == "<undefined>"

Inherited(k) == "<Object.prototype." \o k \o ">"

PropertyLookup(obj, k) ==
  IF ObjectHas(obj, k) THEN ObjectGet(obj, k)
  ELSE IF k \in ObjectPrototypeKeys THEN Inherited(k)
  ELSE Undefined

Truthy(v) == v # Undefined /\ v # NullId /\ v # ""

(***************************************************************************)
(* Discovery engine: operations                                            *)
(***************************************************************************)
\* a start that opens the session with the default suggestion already in it
startDiscovery_WithDefault(state) ==
  Outcome([currentQuestionId |-> "intent",
           answers |-> EmptyObject,
           isComplete |-> FALSE,
           suggestedForms |-> <<"beneficiary-change">>],
          [success |-> TRUE])

\* a start that opens a session only when there is none
startDiscovery_KeepsSession(state) ==
  IF state = Null
  THEN Outcome([currentQuestionId |-> "intent",
                answers |-> EmptyObject,
                isComplete |-> FALSE,
                suggestedForms |-> <<>>],
               [success |-> TRUE])
  ELSE Outcome(state, [success |-> TRUE])

startDiscovery(state) ==
  Outcome([currentQuestionId |-> "intent",
           answers |-> EmptyObject,
           isComplete |-> FALSE,
           suggestedForms |-> <<>>],
          [success |-> TRUE])

\* a lookup that falls back to the root node when the session names no node
Discovery_getCurrentQuestion_DefaultsToRoot(state) ==
  IF state = Null
  THEN Null
  ELSE LET found == {i \in 1..Len(discoveryQuestions) :
                       discoveryQuestions[i].id = state.currentQuestionId}
       IN IF found = {} THEN discoveryQuestions[1]
          ELSE discoveryQuestions[CHOOSE i \in found : \A j \in found : i <= j]

Discovery_getCurrentQuestion(state) ==
  IF state = Null \/ ~Truthy(state.currentQuestionId)
  THEN Null
  ELSE LET found == {i \in 1..Len(discoveryQuestions) :
                       discoveryQuestions[i].id = state.currentQuestionId}
       IN IF found = {} THEN Null
          ELSE discoveryQuestions[CHOOSE i \in found : \A j \in found : i <= j]

\* template.keywords?.some(keyword => textAnswers.includes(keyword.toLowerCase()))
KeywordHit(template, textAnswers) ==
  \E i \in 1..Len(template.keywords) :
    includes(textAnswers, toLowerCase(template.keywords[i]))

\* the ids of the templates with a keyword hit, in catalog order
RECURSIVE KeywordSuggestions(_, _)
KeywordSuggestions(templates, textAnswers) ==
  IF Len(templates) = 0 THEN <<>>
  ELSE (IF KeywordHit(templates[1], textAnswers) THEN <<templates[1].id>> ELSE <<>>)
         \o KeywordSuggestions(Tail(templates), textAnswers)

\* answers[k] === text
AnswerIs(answers, k, text) == ObjectHas(answers, k) /\ ObjectGet(answers, k) = text

\* an intent mapping that does not look at the surrender-type answer
MappedSuggestions_NoBranch(answers) ==
  IF AnswerIs(answers, "intent", "Change beneficiary information")
  THEN <<"beneficiary-change">>
  ELSE IF AnswerIs(answers, "intent", "Take a loan against my policy")
  THEN <<"loan-form">>
  ELSE IF AnswerIs(answers, "intent", "Surrender my policy")
  THEN <<"surrender-form">>
  ELSE IF AnswerIs(answers, "intent", "Apply for reinstatement")
  THEN <<"reinstatement-application">>
  ELSE IF AnswerIs(answers, "intent", "Change policy details")
  THEN <<"amendment-request">>
  ELSE <<>>

MappedSuggestions(answers) ==
  IF AnswerIs(answers, "intent", "Change beneficiary information")
  THEN <<"beneficiary-change">>
  ELSE IF AnswerIs(answers, "intent", "Take a loan against my policy")
  THEN <<"loan-form">>
  ELSE IF AnswerIs(answers, "intent", "Surrender my policy")
  THEN IF AnswerIs(answers, "surrender-type", "Non-forfeiture option (keep some benefits)")
       THEN <<"non-forfeiture-option">>
       ELSE <<"surrender-form">>
  ELSE IF AnswerIs(answers, "intent", "Apply for reinstatement")
  THEN <<"reinstatement-application">>
  ELSE IF AnswerIs(answers, "intent", "Change policy details")
  THEN <<"amendment-request">>
  ELSE <<>>

\* a resolution that returns what it found, without the default
suggestFormsBasedOnAnswers_NoDefault(answers) ==
  LET mapped == MappedSuggestions(answers)
  IN IF Len(mapped) = 0
     THEN KeywordSuggestions(FORM_TEMPLATES,
                             toLowerCase(join(ObjectValues(answers), " ")))
     ELSE mapped

\* a resolution whose default is the claim form of the README, which the
\* catalog does not hold
suggestFormsBasedOnAnswers_UnknownDefault(answers) ==
  LET found == suggestFormsBasedOnAnswers_NoDefault(answers)
  IN IF Len(found) > 0 THEN found ELSE <<"claim-form">>

suggestFormsBasedOnAnswers(answers) ==
  LET mapped == MappedSuggestions(answers)
      suggestions ==
        IF Len(mapped) = 0
        THEN KeywordSuggestions(FORM_TEMPLATES,
                                toLowerCase(join(ObjectValues(answers), " ")))
        ELSE mapped
  IN IF Len(suggestions) > 0 THEN suggestions ELSE <<"beneficiary-change">>

\* a lookup that normalises the answer before it consults followUp
NextQuestionId_Normalized(currentQuestion, answer) ==
  IF "followUp" \in DOMAIN currentQuestion
     /\ Truthy(PropertyLookup(currentQuestion.followUp, trim(toLowerCase(answer))))
  THEN PropertyLookup(currentQuestion.followUp, trim(toLowerCase(answer)))
  ELSE NullId

\* currentQuestion.followUp && currentQuestion.followUp[answer]
NextQuestionId(currentQuestion, answer) ==
  IF "followUp" \in DOMAIN currentQuestion
     /\ Truthy(PropertyLookup(currentQuestion.followUp, answer))
  THEN PropertyLookup(currentQuestion.followUp, answer)
  ELSE NullId

Discovery_processAnswer(state, answer) ==
  IF state = Null
  THEN Outcome(state, [success |-> FALSE, error |-> "No active discovery session"])
  ELSE
    LET currentQuestion == Discovery_getCurrentQuestion(state)
    IN IF currentQuestion = Null
       THEN Outcome(state, [success |-> FALSE, error |-> "No current question found"])
       ELSE
         LET nextQuestionId == NextQuestionId(currentQuestion, answer)
             moved == [state EXCEPT
                         !.answers = ObjectSet(@, currentQuestion.id, answer),
                         !.currentQuestionId = nextQuestionId]
         IN IF ~Truthy(nextQuestionId)
            THEN LET suggested == suggestFormsBasedOnAnswers(moved.answers)
                 IN Outcome([moved EXCEPT !.isComplete = TRUE,
                                          !.suggestedForms = suggested],
                            [success |-> TRUE, completed |-> TRUE,
                             suggestedForms |-> suggested])
            ELSE Outcome(moved, IF moved.isComplete
                                THEN [success |-> TRUE, completed |-> TRUE,
                                      suggestedForms |-> moved.suggestedForms]
                                ELSE [success |-> TRUE, completed |-> FALSE])

getDiscoveryState(state) == Outcome(state, state)

Discovery_getProgress(state) ==
  IF state = Null
  THEN Outcome(state, [questionsAnswered |-> 0, formsNarrowed |-> 0, isComplete |-> FALSE])
  ELSE Outcome(state, [questionsAnswered |-> Len(ObjectKeys(state.answers)),
                       formsNarrowed |-> Len(state.suggestedForms),
                       isComplete |-> state.isComplete])

\* a reset that drops only a session in progress
resetDiscovery_KeepsComplete(state) ==
  IF state # Null /\ state.isComplete THEN Outcome(state, Null) ELSE Outcome(Null, Null)

resetDiscovery(state) == Outcome(Null, Null)

Discovery_getFormSummary(state) ==
  IF state = Null
  THEN Outcome(state, Null)
  ELSE Outcome(state, [suggestedForms |-> state.suggestedForms,
                       answers |-> state.answers,
                       completed |-> state.isComplete])

(***************************************************************************)
(* Intent matcher (build/form-templates.js).  A suggestion keeps formId,   *)
(* title, confidence, matchedKeywords and pdfPath; description is display  *)
(* data copied from the template.                                          *)
(***************************************************************************)
\* The program of source[i..] for the syntax the patterns use: runs of
\* literal characters, '.', '.*' and '.?'.
RECURSIVE Compile(_, _)
Compile(source, i) ==
  IF i > Len(source) THEN <<>>
  ELSE IF CharAt(source, i) = "."
  THEN IF i < Len(source) /\ CharAt(source, i + 1) = "*"
       THEN <<[kind |-> "star", text |-> ""]>> \o Compile(source, i + 2)
       ELSE IF i < Len(source) /\ CharAt(source, i + 1) = "?"
       THEN <<[kind |-> "optional", text |-> ""]>> \o Compile(source, i + 2)
       ELSE <<[kind |-> "any", text |-> ""]>> \o Compile(source, i + 1)
  ELSE LET rest == Compile(source, i + 1)
       IN IF Len(rest) > 0 /\ rest[1].kind = "literal"
          THEN <<[kind |-> "literal", text |-> CharAt(source, i) \o rest[1].text]>>
                 \o Tail(rest)
          ELSE <<[kind |-> "literal", text |-> CharAt(source, i)]>> \o rest

\* Canonicalize under the i flag, on the letters the patterns and texts use
Canonicalize(s, ignoreCase) == IF ignoreCase THEN toLowerCase(s) ELSE s

\* a regular-expression literal /source/flags, compiled when it is evaluated
RegExp(source, flags) ==
  [source |-> source, flags |-> flags,
   program |-> Compile(Canonicalize(source, includes(flags, "i")), 1)]

\* the entries of FORM_KEYWORDS in Object.entries order
FORM_KEYWORDS ==
  << [formId |-> "beneficiary-change",
      keywords |-> <<"beneficiary", "change beneficiary", "update beneficiary",
                     "new beneficiary", "primary beneficiary",
                     "secondary beneficiary", "heir", "inheritance">>,
      patterns |-> <<RegExp("beneficiary", "i"), RegExp("change.*beneficiary", "i"),
                     RegExp("update.*beneficiary", "i"),
                     RegExp("new.*beneficiary", "i")>>],
     [formId |-> "loan-form",
      keywords |-> <<"loan", "borrow", "policy loan", "cash advance",
                     "loan against policy", "policy value", "cash value loan">>,
      patterns |-> <<RegExp("loan", "i"), RegExp("borrow", "i"),
                     RegExp("cash.*advance", "i"), RegExp("policy.*loan", "i"),
                     RegExp("loan.*against", "i")>>],
     [formId |-> "reinstatement-application",
      keywords |-> <<"reinstate", "reinstatement", "lapsed policy", "restore policy",
                     "reactivate", "policy lapsed", "bring back policy">>,
      patterns |-> <<RegExp("reinstate", "i"), RegExp("lapsed", "i"),
                     RegExp("restore.*policy", "i"), RegExp("reactivate", "i"),
                     RegExp("bring.*back", "i")>>],
     [formId |-> "surrender-form",
      keywords |-> <<"surrender", "cash out", "cancel policy", "terminate policy",
                     "cash surrender", "policy surrender", "cash value">>,
      patterns |-> <<RegExp("surrender", "i"), RegExp("cash.*out", "i"),
                     RegExp("cancel.*policy", "i"), RegExp("terminate.*policy", "i"),
                     RegExp("cash.*value", "i")>>],
     [formId |-> "non-forfeiture-option",
      keywords |-> <<"non-forfeiture", "forfeiture option", "paid-up", "extended term",
                     "cash surrender option", "policy options">>,
      patterns |-> <<RegExp("non.?forfeiture", "i"), RegExp("paid.?up", "i"),
                     RegExp("extended.*term", "i"), RegExp("policy.*option", "i")>>],
     [formId |-> "annuity-contract-change",
      keywords |-> <<"annuity", "contract change", "annuity change",
                     "payment frequency", "investment allocation",
                     "annuity contract">>,
      patterns |-> <<RegExp("annuity", "i"), RegExp("contract.*change", "i"),
                     RegExp("payment.*frequency", "i"),
                     RegExp("investment.*allocation", "i")>>],
     [formId |-> "amendment-request",
      keywords |-> <<"amendment", "policy amendment", "change policy", "modify policy",
                     "coverage change", "rider", "policy modification">>,
      patterns |-> <<RegExp("amendment", "i"), RegExp("modify.*policy", "i"),
                     RegExp("change.*policy", "i"), RegExp("coverage.*change", "i"),
                     RegExp("rider", "i")>> ] >>

\* lastIndex of every pattern when the module has been loaded
InitialLastIndex ==
  [f \in 1..Len(FORM_KEYWORDS) |-> [p \in 1..Len(FORM_KEYWORDS[f].patterns) |-> 0]]

\* '.' matches every character but a line terminator
IsLineTerminator(c) == c \in {"\n", "\r"}

\* the offset up to which a run of '.' that starts at offset j can extend
LineEnd(text, j) ==
  LET terminators == {m \in (j + 1)..Len(text) : IsLineTerminator(CharAt(text, m))}
  IN IF terminators = {} THEN Len(text)
     ELSE (CHOOSE m \in terminators : \A n \in terminators : m <= n) - 1

\* The backtracking matcher (quantifiers greedy): the end offset of the match
\* of program[i..] that starts at offset j of text, -1 when there is none.
\* Offsets count the characters before the position, as lastIndex does.
RECURSIVE MatchHere(_, _, _, _)
MatchHere(program, i, text, j) ==
  IF i > Len(program) THEN j
  ELSE IF program[i].kind = "literal"
  THEN IF j + Len(program[i].text) <= Len(text)
          /\ SubSeq(text, j + 1, j + Len(program[i].text)) = program[i].text
       THEN MatchHere(program, i + 1, text, j + Len(program[i].text))
       ELSE -1
  ELSE IF program[i].kind = "star"
  THEN LET ends == {m \in j..LineEnd(text, j) : MatchHere(program, i + 1, text, m) # -1}
       IN IF ends = {} THEN -1
          ELSE MatchHere(program, i + 1, text, CHOOSE m \in ends : \A n \in ends : n <= m)
  ELSE IF program[i].kind = "optional"
  THEN LET taken == IF j < Len(text) /\ ~IsLineTerminator(CharAt(text, j + 1))
                    THEN MatchHere(program, i + 1, text, j + 1)
                    ELSE -1
       IN IF taken # -1 THEN taken ELSE MatchHere(program, i + 1, text, j)
  ELSE IF j < Len(text) /\ ~IsLineTerminator(CharAt(text, j + 1))
  THEN MatchHere(program, i + 1, text, j + 1)
  ELSE -1

HasFlag(pattern, flag) == includes(pattern.flags, flag)

\* RegExpBuiltinExec: the end offset of the leftmost match that starts at or
\* after offset from, -1 when there is none
\* the scan of RegExpBuiltinExec over the start offsets from, from + 1, ...
LeftmostMatch(program, subject, from) ==
  LET starts == {s \in from..Len(subject) : MatchHere(program, 1, subject, s) # -1}
  IN IF starts = {} THEN -1
     ELSE MatchHere(program, 1, subject, CHOOSE s \in starts : \A t \in starts : s <= t)

\* the subject is canonicalized as the pattern has been
RegExpBuiltinExec(pattern, text, from) ==
  LeftmostMatch(pattern.program, Canonicalize(text, HasFlag(pattern, "i")), from)

\* an expression that reads and writes lastIndex whatever its flags
UsesLastIndex_Always(pattern) == TRUE

\* test and exec read and write lastIndex only under the g flag
UsesLastIndex(pattern) == HasFlag(pattern, "g")

\* pattern.test(text) with the pattern's lastIndex at last: whether there is a
\* match, and the lastIndex the call leaves
\* what test returns and the lastIndex it leaves, for an exec that ended at
\* offset end (-1: failure)
TestOutcome(usesLastIndex, last, end) ==
  [matched |-> end # -1,
   lastIndex |-> IF usesLastIndex THEN (IF end # -1 THEN end ELSE 0) ELSE last]

RegExpTest(pattern, last, text) ==
  TestOutcome(UsesLastIndex(pattern), last,
              IF UsesLastIndex(pattern) /\ last > Len(text) THEN -1
              ELSE RegExpBuiltinExec(pattern, text,
                                     IF UsesLastIndex(pattern) THEN last ELSE 0))

\* the loop over formConfig.patterns: how many matched, and their lastIndex
\* one iteration of the loop over the patterns, before the rest of it
TestedThen(first, rest) ==
  [matched |-> (IF first.matched THEN 1 ELSE 0) + rest.matched,
   lastIndex |-> <<first.lastIndex>> \o rest.lastIndex]

RECURSIVE TestPatterns(_, _, _)
TestPatterns(patterns, lasts, text) ==
  IF Len(patterns) = 0 THEN [matched |-> 0, lastIndex |-> <<>>]
  ELSE TestedThen(RegExpTest(patterns[1], lasts[1], text),
                  TestPatterns(Tail(patterns), Tail(lasts), text))

\* the loop over formConfig.keywords: the keywords the input contains
RECURSIVE MatchedKeywords(_, _)
MatchedKeywords(keywords, normalizedInput) ==
  IF Len(keywords) = 0 THEN <<>>
  ELSE (IF includes(normalizedInput, toLowerCase(keywords[1]))
        THEN <<keywords[1]>> ELSE <<>>)
         \o MatchedKeywords(Tail(keywords), normalizedInput)

\* String.prototype.replace with string arguments: the first occurrence only
replace(s, search, replacement) ==
  LET found == {i \in 1..(Len(s) - Len(search) + 1) :
                  SubSeq(s, i, i + Len(search) - 1) = search}
  IN IF found = {} THEN s
     ELSE LET i == CHOOSE k \in found : \A m \in found : k <= m
          IN SubSeq(s, 1, i - 1) \o replacement \o SubSeq(s, i + Len(search), Len(s))

\* a replacement of every occurrence (String.prototype.replaceAll)
RECURSIVE replaceAll(_, _, _)
replaceAll(s, search, replacement) ==
  IF replace(s, search, replacement) = s THEN s
  ELSE replaceAll(replace(s, search, replacement), search, replacement)

\* an id phrase with every hyphen turned into a space
IdPhrase_AllSeparators(formId) == replaceAll(formId, "-", " ")

\* formId.replace('-', ' ')
IdPhrase(formId) == replace(formId, "-", " ")

(***************************************************************************)
(* Confidence is a double.  The model holds it in thousandths.  The sums   *)
(* the loop can form from 0.3, 0.4 and 0.5 (keywords first, then patterns, *)
(* then the bonus) are the doubles nearest to their decimal values, except *)
(* 0.6 + 0.3 = 0.8999999999999999, held as 899; sums above 1.0 are capped  *)
(* before they are used.                                                   *)
(***************************************************************************)
KeywordWeight == 300

PatternWeight == 400

IdBonus == 500

ConfidenceThreshold == 200

ConfidenceCap == 1000

PlusDouble(x, w) == IF x = 600 /\ w = 300 THEN 899 ELSE x + w

RECURSIVE AddTimes(_, _, _)
AddTimes(x, w, n) == IF n = 0 THEN x ELSE AddTimes(PlusDouble(x, w), w, n - 1)

Min(a, b) == IF a <= b THEN a ELSE b

\* a candidate list with no inclusion threshold
Candidate_NoThreshold(config, matchedKeywords, confidence) ==
  IF HasTemplate(config.formId)
  THEN << [formId |-> config.formId,
           title |-> getFormTemplate(config.formId).title,
           confidence |-> Min(confidence, ConfidenceCap),
           matchedKeywords |-> matchedKeywords,
           pdfPath |-> "./src/forms/" \o config.formId \o ".pdf"] >>
  ELSE <<>>

\* the object literal of suggestions.push
Suggestion(formId, template, confidence, matchedKeywords) ==
  [formId |-> formId,
   title |-> template.title,
   confidence |-> Min(confidence, ConfidenceCap),
   matchedKeywords |-> matchedKeywords,
   pdfPath |-> "./src/forms/" \o formId \o ".pdf"]

\* if (confidence > 0.2) { const template = ...; if (template) push }
PushIf(template, formId, confidence, matchedKeywords) ==
  IF confidence > ConfidenceThreshold /\ template # Null
  THEN <<Suggestion(formId, template, confidence, matchedKeywords)>>
  ELSE <<>>

\* the suggestion pushed for one form: none at or below the threshold
Candidate(config, matchedKeywords, confidence) ==
  PushIf(getFormTemplate(config.formId), config.formId, confidence, matchedKeywords)

\* a loop body that scores the keywords only
AnalyzeForm_KeywordsOnly(config, lasts, normalizedInput) ==
  LET matchedKeywords == MatchedKeywords(config.keywords, normalizedInput)
  IN [pushed |-> Candidate(config, matchedKeywords,
                           AddTimes(0, KeywordWeight, Len(matchedKeywords))),
      lastIndex |-> lasts]

\* the confidence the loop body has accumulated when it reaches the threshold
Confidence(formId, normalizedInput, keywordCount, patternCount) ==
  IF includes(normalizedInput, IdPhrase(formId))
  THEN PlusDouble(AddTimes(AddTimes(0, KeywordWeight, keywordCount),
                           PatternWeight, patternCount), IdBonus)
  ELSE AddTimes(AddTimes(0, KeywordWeight, keywordCount), PatternWeight, patternCount)

\* what the loop body leaves once the keywords and the patterns are counted
Scored(config, normalizedInput, matchedKeywords, tested) ==
  [pushed |-> Candidate(config, matchedKeywords,
                        Confidence(config.formId, normalizedInput,
                                   Len(matchedKeywords), tested.matched)),
   lastIndex |-> tested.lastIndex]

\* the body of the loop for one form: its suggestion (or none) and the
\* lastIndex of its patterns after the tests
AnalyzeForm(config, lasts, normalizedInput) ==
  Scored(config, normalizedInput,
         MatchedKeywords(config.keywords, normalizedInput),
         TestPatterns(config.patterns, lasts, normalizedInput))

\* the loop over Object.entries(FORM_KEYWORDS), for the entries still to visit
\* one iteration of the loop over the forms, before the rest of it
AnalyzedThen(first, rest) ==
  [suggestions |-> first.pushed \o rest.suggestions,
   lastIndex |-> <<first.lastIndex>> \o rest.lastIndex]

RECURSIVE AnalyzeForms(_, _, _)
AnalyzeForms(entries, lasts, normalizedInput) ==
  IF Len(entries) = 0 THEN [suggestions |-> <<>>, lastIndex |-> <<>>]
  ELSE AnalyzedThen(AnalyzeForm(entries[1], lasts[1], normalizedInput),
                    AnalyzeForms(Tail(entries), Tail(lasts), normalizedInput))

\* where x goes in a list sorted by (a, b) => b.confidence - a.confidence:
\* after every element that does not come after it
RECURSIVE InsertSorted(_, _)
InsertSorted(sorted, x) ==
  IF Len(sorted) = 0 THEN <<x>>
  ELSE IF x.confidence - sorted[Len(sorted)].confidence > 0
  THEN Append(InsertSorted(SubSeq(sorted, 1, Len(sorted) - 1), x), sorted[Len(sorted)])
  ELSE Append(sorted, x)

\* a sort that puts the later of two equal elements first
RECURSIVE sort_Unstable(_)
sort_Unstable(list) ==
  IF Len(list) = 0 THEN <<>>
  ELSE LET x == list[Len(list)]
           rest == sort_Unstable(SubSeq(list, 1, Len(list) - 1))
           before == {i \in 1..Len(rest) : rest[i].confidence > x.confidence}
       IN SubSeq(rest, 1, Cardinality(before)) \o <<x>>
            \o SubSeq(rest, Cardinality(before) + 1, Len(rest))

\* Array.prototype.sort with that comparator (stable)
RECURSIVE sort(_)
sort(list) ==
  IF Len(list) = 0 THEN <<>>
  ELSE InsertSorted(sort(SubSeq(list, 1, Len(list) - 1)), list[Len(list)])

\* Array.prototype.slice(0, end)
slice(list, end) ==
  LET stop == IF end < 0 THEN (IF Len(list) + end < 0 THEN 0 ELSE Len(list) + end)
              ELSE Min(end, Len(list))
  IN SubSeq(list, 1, stop)

\* the return of analyzeUserIntent: the suggestions, sorted
Sorted(analyzed) == Outcome(analyzed.lastIndex, sort(analyzed.suggestions))

analyzeUserIntent(lasts, userInput) ==
  Sorted(AnalyzeForms(FORM_KEYWORDS, lasts, trim(toLowerCase(userInput))))

\* suggestions.length > 0 ? suggestions[0] : null
First(analyzed) ==
  Outcome(analyzed.state, IF Len(analyzed.result) > 0 THEN analyzed.result[1] ELSE Null)

selectBestForm(lasts, userInput) == First(analyzeUserIntent(lasts, userInput))

\* suggestions.slice(0, maxSuggestions)
Sliced(analyzed, maxSuggestions) ==
  Outcome(analyzed.state, slice(analyzed.result, maxSuggestions))

getFormSuggestions(lasts, userInput, maxSuggestions) ==
  Sliced(analyzeUserIntent(lasts, userInput), maxSuggestions)

(***************************************************************************)
(* The tools of the MCP servers. A response is modelled by the opening     *)
(* words of the text template the handler fills in and by the values it    *)
(* fills it with.                                                          *)
(***************************************************************************)
\* what a handler that consults the matcher leaves behind: the discovery
\* session, the lastIndex of the patterns and the response
Handled(state, lasts, response) ==
  [state |-> state, lastIndex |-> lasts, response |-> response]

\* a response that shows the question on display (undefined fields of a
\* missing question are rendered by the template's fallbacks)
QuestionText(text, question) == [text |-> text, question |-> question]

\* suggestions.filter(s => s.confidence > 0.7)
HighConfidence == 700

HighConfidenceMatches(suggestions) ==
  SelectSeq(suggestions, LAMBDA s : s.confidence > HighConfidence)

SuggestFormsResponse(started, suggested) ==
  Handled(started, suggested.state,
          IF HighConfidenceMatches(suggested.result) # <<>>
          THEN [text |-> "I found these forms that match",
                forms |-> HighConfidenceMatches(suggested.result)]
          ELSE QuestionText("I'd like to help you find the right insurance form",
                            Discovery_getCurrentQuestion(started)))

\* the handler of the server without guided discovery: the session is left
\* as it was
suggest_forms_NoDiscovery(state, lasts, user_input, max_suggestions) ==
  SuggestFormsResponse(state,
                       getFormSuggestions(lasts, user_input, max_suggestions))

suggest_forms(state, lasts, user_input, max_suggestions) ==
  SuggestFormsResponse(startDiscovery(state).state,
                       getFormSuggestions(lasts, user_input, max_suggestions))

\* topMatch && topMatch.confidence > 0.8
PerfectMatch == 800

AnalyzeIntentResponse(started, user_input, formSuggestions) ==
  Handled(started, formSuggestions.state,
          IF formSuggestions.result # <<>>
             /\ formSuggestions.result[1].confidence > PerfectMatch
          THEN [text |-> "Perfect Match Found", user_input |-> user_input,
                topMatch |-> formSuggestions.result[1]]
          ELSE IF formSuggestions.result # <<>>
          THEN [text |-> "I found a few forms that might work",
                user_input |-> user_input,
                question |-> Discovery_getCurrentQuestion(started)]
          ELSE QuestionText("I'd love to help you with your insurance needs",
                            Discovery_getCurrentQuestion(started)))

\* analyzeUserIntent, selectBestForm and getFormSuggestions(user_input, 3)
\* run one after the other on the same patterns
analyze_intent(state, lasts, user_input) ==
  AnalyzeIntentResponse(
    startDiscovery(state).state, user_input,
    getFormSuggestions(
      selectBestForm(analyzeUserIntent(lasts, user_input).state,
                     user_input).state,
      user_input, 3))

start_form_discovery(state) ==
  Outcome(startDiscovery(state).state,
          QuestionText("Started form discovery session",
                       Discovery_getCurrentQuestion(startDiscovery(state).state)))

get_discovery_question(state) ==
  Outcome(state,
          IF Discovery_getCurrentQuestion(state) # Null
          THEN QuestionText("Current question",
                            Discovery_getCurrentQuestion(state))
          ELSE [text |-> "No active discovery session or session is complete"])

\* template?.title || formId
TitleOrId(formId) ==
  IF HasTemplate(formId) THEN getFormTemplate(formId).title ELSE formId

\* state?.suggestedForms || [] and the three texts by its length
DiscoveryCompleteText(suggestedForms) ==
  IF Len(suggestedForms) = 1
  THEN [text |-> "Perfect! Based on your answers",
        formId |-> suggestedForms[1], title |-> TitleOrId(suggestedForms[1])]
  ELSE IF Len(suggestedForms) > 1
  THEN [text |-> "Great! Based on your answers, here are your best options",
        forms |-> [i \in 1..Len(suggestedForms) |->
                     [formId |-> suggestedForms[i],
                      title |-> TitleOrId(suggestedForms[i])]]]
  ELSE [text |-> "I couldn't find a perfect match", forms |-> getAvailableForms]

AnswerDiscoveryResponse(processed) ==
  Outcome(processed.state,
          IF "completed" \in DOMAIN processed.result /\ processed.result.completed
          THEN DiscoveryCompleteText(IF processed.state = Null THEN <<>>
                                     ELSE processed.state.suggestedForms)
          ELSE IF Discovery_getCurrentQuestion(processed.state) # Null
          THEN QuestionText("Thanks for that answer! Let me ask you one more question",
                            Discovery_getCurrentQuestion(processed.state))
          ELSE [text |-> "Thank you for your answer! Let me process this"])

answer_discovery_question(state, answer) ==
  AnswerDiscoveryResponse(Discovery_processAnswer(state, answer))

reset_discovery(state) ==
  Outcome(resetDiscovery(state).state,
          [text |-> "Form discovery session has been reset"])

StartElicitationResponse(started, form_id) ==
  IF ~started.result.success
  THEN Outcome(started.state,
               [text |-> "Error starting elicitation",
                error |-> started.result.error])
  ELSE Outcome(Elicitation_getCurrentQuestion(started.state).state,
               [text |-> "Elicitation started for form", form_id |-> form_id,
                question |-> Elicitation_getCurrentQuestion(started.state).result])

start_elicitation(state, form_id) ==
  StartElicitationResponse(startElicitation(state, form_id), form_id)

AnswerQuestionResponse(processed) ==
  IF ~processed.result.success
  THEN Outcome(processed.state,
               [text |-> "Invalid answer", error |-> processed.result.error])
  ELSE IF processed.result.completed
  THEN Outcome(processed.state, [text |-> "Form completion finished!"])
  ELSE Outcome(Elicitation_getCurrentQuestion(processed.state).state,
               QuestionText("Answer accepted",
                            Elicitation_getCurrentQuestion(processed.state).result))

answer_question(state, answer) ==
  AnswerQuestionResponse(Elicitation_processAnswer(state, answer))

(***************************************************************************)
(* Inputs                                                                  *)
(***************************************************************************)
\* an id the catalog does not hold (the README lists it, the catalog does not)
UnknownFormId == "claim-form"

FormIds == {FORM_TEMPLATES[i].id : i \in 1..Len(FORM_TEMPLATES)} \cup {UnknownFormId}

\* 105 characters: longer than the maxLength of every short text field
LongAnswer ==
  "This answer goes on and on for well over one hundred characters, so that it is too long for a name field."

\* answers submitted to the elicitation engine at any question: empty and
\* blank; a valid date; a date with no such month; a boolean with case and
\* padding; a choice in another casing than declared; texts of 1, 5, 10 and
\* 105 characters
ElicitationAnswers ==
  { "", "   ", "2024-01-15", "2024-13-45", " Y ", "other", LongAnswer }

\* answers a user picks from the options of the select question on display:
\* the first option in lower case and the last option with padding
ChoiceAnswers(question) ==
  IF question # Null /\ "options" \in DOMAIN question
  THEN { toLowerCase(question.options[1]),
         "  " \o question.options[Len(question.options)] \o " " }
  ELSE {}

\* answers a user gives to a question whose schema declares a minimum: a
\* number inside the bounds, one above the maximum and one below the minimum
NumericAnswers(question) ==
  IF question # Null /\ "minimum" \in DOMAIN question.validation
  THEN {"50", "150", "0"}
  ELSE {}

AnswersAt(question) ==
  ElicitationAnswers \cup ChoiceAnswers(question) \cup NumericAnswers(question)

AnswersFor(state) == AnswersAt(Elicitation_getCurrentQuestion(state).result)

\* answers submitted to the discovery engine: the six root options, the
\* surrender-type options, free texts with and without catalog keywords,
\* and a name that Object.prototype defines
DiscoveryAnswers ==
  { "Change beneficiary information", "Take a loan against my policy",
    "Surrender my policy", "Change policy details", "Apply for reinstatement",
    "Other",
    "Full surrender (cancel policy)",
    "Partial surrender (withdraw some cash value)",
    "Non-forfeiture option (keep some benefits)",
    "I want to CASH OUT and give it to my heir",
    "my annuity", "something else entirely", "", "constructor" }

\* texts given to the matcher: the empty and the blank text; the requests of
\* the repository's test scripts; each id with its hyphens as spaces, and with
\* only its first hyphen as a space; texts with keywords but no pattern, with
\* a pattern but no keyword, with equal scores for several forms, in upper
\* case with padding, on two lines, and with no signal at all
MatcherInputs ==
  { "", "   ",
    "I want to change my beneficiary",
    "I need a loan against my policy for medical expenses",
    "I need a loan against my policy",
    "My policy lapsed and I want to reinstate it",
    "I want to surrender my policy for cash",
    "I need to change my annuity contract",
    "I want to add a rider to my policy",
    "I need to modify my non-forfeiture option",
    "Can I borrow money from my life insurance?",
    "How do I update who gets my insurance money?",
    "My insurance stopped and I want it back",
    "beneficiary change", "loan form", "reinstatement application",
    "surrender form", "non forfeiture option", "annuity contract change",
    "amendment request",
    "non forfeiture-option", "annuity contract-change",
    "  LOAN FORM  ",
    "heir inheritance", "policy value", "cash value loan",
    "surrender my annuity rider", "paid up policy", "paidup",
    "please change it\nbeneficiary",
    "their policy", "hello there",
    "my heir and my annuity contract",
    "cancel policy or take a policy loan, then restore policy with a rider" }

\* ids looked up in the catalog: every id of the catalog; each of them padded,
\* with its first hyphen as a space, cut to its first word, and replaced by
\* the title or the first keyword of its template; the empty id, an id the
\* catalog does not hold and a name that Object.prototype defines
CatalogLookups ==
  UNION { { FORM_TEMPLATES[i].id,
            FORM_TEMPLATES[i].id \o " ",
            " " \o FORM_TEMPLATES[i].id,
            IdPhrase(FORM_TEMPLATES[i].id),
            FORM_TEMPLATES[i].title,
            FORM_TEMPLATES[i].keywords[1] } : i \in 1..Len(FORM_TEMPLATES) }
    \cup {"", UnknownFormId, "constructor"}

\* The largest length bound a field of ValidatorFields declares
MaxLengthBound == 5

\* field schemas given to the question converter besides those of the
\* catalog: texts with no length bound, with both bounds, with one bound
\* only and with a bound of 0; a boolean, a date, a single choice and a
\* number with minimum and maximum; fields that declare more than one of
\* type boolean, format date and enum
ValidatorFields ==
  { [name |-> "note", type |-> "string", title |-> "Note"],
    [name |-> "code", type |-> "string", title |-> "Code",
     minLength |-> 2, maxLength |-> MaxLengthBound],
    [name |-> "atLeast", type |-> "string", title |-> "At least", minLength |-> 3],
    [name |-> "atMost", type |-> "string", title |-> "At most", maxLength |-> 3],
    [name |-> "zeroMin", type |-> "string", title |-> "Zero minimum",
     minLength |-> 0, maxLength |-> MaxLengthBound],
    [name |-> "zeroMax", type |-> "string", title |-> "Zero maximum",
     minLength |-> 0, maxLength |-> 0],
    [name |-> "agreed", type |-> "boolean", title |-> "Agreed"],
    [name |-> "since", type |-> "string", format |-> "date", title |-> "Since"],
    [name |-> "surrenderType", type |-> "string", title |-> "Surrender Type",
     enum |-> <<"Full surrender", "Partial surrender">>],
    [name |-> "percentage", type |-> "number", title |-> "Percentage",
     minimum |-> 1, maximum |-> 100],
    [name |-> "flagOrDate", type |-> "boolean", format |-> "date", title |-> "Flag or date",
     enum |-> <<"true", "false">>],
    [name |-> "dateOrChoice", type |-> "string", format |-> "date",
     title |-> "Date or choice", enum |-> <<"2024-01-15", "Later">>],
    [name |-> "boundedChoice", type |-> "string", title |-> "Bounded choice",
     enum |-> <<"Yes", "No">>, minLength |-> 3] }

\* schemas given to the question converter: every schema of the catalog, and
\* each field of ValidatorFields alone, required and optional
ValidatorSchemas ==
  {FORM_TEMPLATES[i].elicitationSchema : i \in 1..Len(FORM_TEMPLATES)}
    \cup {[properties |-> <<field>>, required |-> <<field.name>>] : field \in ValidatorFields}
    \cup {[properties |-> <<field>>, required |-> <<>>] : field \in ValidatorFields}

\* answers given to the validator: empty and blank; the eight boolean words
\* in several casings, padded, and near misses; dates that exist, dates with
\* no such month or day, days past the end of the month, other formats and a
\* padded date; options in declared and other casing, padded, and a prefix
\* of an option; numbers inside and outside 1..100; texts of 1 to 6
\* characters, with padding, and a text of 105 characters
ValidatorAnswers ==
  { "", " ", " \t\n",
    "true", "TRUE", " Yes ", "y", "1", "false", "No", "N", "0", "yes please", "2", "t",
    "2024-01-15", "2024-02-29", "2023-02-29", "2024-02-30", "2024-04-31",
    "2024-13-01", "2024-00-10", "2024-01-00", "2024-01-32", "2024-1-5",
    "01/15/2024", " 2024-01-15", "2024-01-15x",
    "Full surrender", "full SURRENDER", "  Partial surrender ", "Full", "later",
    "50", "150", "-3", "abc",
    "a", "ab", " ab ", "abcde", "abcdef", "  abcde  ",
    LongAnswer }

\* the largest maxSuggestions a caller passes
MaxSuggestionsBound == 3

\* maxSuggestions: the default 3, smaller counts, zero and a negative count
MaxSuggestionsChoices == (0 - 1)..MaxSuggestionsBound

\* inputs of the engines and the matcher when they run side by side: the
\* template with the fewest fields, the one with an optional field and the
\* unknown id; at each question the
\* empty answer, a text that fits every text field, and the first option in
\* lower case; a root option with a follow-up, a free text with a keyword and
\* a name that Object.prototype defines; two short texts for the matcher
SystemFormIds == {"non-forfeiture-option", "surrender-form", UnknownFormId}

SystemAnswersFor(state) ==
  LET question == Elicitation_getCurrentQuestion(state).result
  IN {"", "2024-01-15"}
       \cup (IF question # Null /\ "options" \in DOMAIN question
             THEN {toLowerCase(question.options[1])} ELSE {})

SystemDiscoveryAnswers == {"Other", "my annuity", "constructor"}

SystemTexts == {"loan form", "their heir"}

\* inputs of the tools: a text that names a form outright, one with a
\* single keyword inside another word and one without any signal; no
\* suggestion at all or the default count; the ids the form_id enum admits
ServerTexts == {"loan form", "their heir", "hello there"}

ServerMaxSuggestions == {0, MaxSuggestionsBound}

ServerFormIds == {"non-forfeiture-option", "surrender-form"}

\* templates given to the constructor of an engine besides the catalog: one
\* with no field, one with a single required text, one with a required date
\* and an optional boolean, one with a choice, an optional bounded text and
\* a required text
EngineSchemas ==
  { EmptySchema,
    [properties |-> << [name |-> "note", type |-> "string", title |-> "Note"] >>,
     required |-> <<"note">>],
    [properties |-> << [name |-> "since", type |-> "string", format |-> "date",
                        title |-> "Since"],
                       [name |-> "agreed", type |-> "boolean", title |-> "Agreed"] >>,
     required |-> <<"since">>],
    [properties |-> << [name |-> "surrenderType", type |-> "string",
                        title |-> "Surrender Type",
                        enum |-> <<"Full surrender", "Partial surrender">>],
                       [name |-> "code", type |-> "string", title |-> "Code",
                        minLength |-> 2, maxLength |-> MaxLengthBound],
                       [name |-> "note", type |-> "string", title |-> "Note"] >>,
     required |-> <<"surrenderType", "note">>] }

CustomFormId == "custom-form"

EngineTemplates(schema) ==
  << [id |-> CustomFormId, title |-> "Custom form", elicitationSchema |-> schema] >>

(***************************************************************************)
(* The state machine                                                       *)
(***************************************************************************)
Init ==
  /\ elicitationState = Null
  /\ discoveryState = Null
  /\ lastIndex = InitialLastIndex
  /\ requestText = ""
  /\ formSchema = EmptySchema
  /\ call = [op |-> "constructor"]
  /\ ret = Null

StartElicitation(formId) ==
  LET outcome == startElicitation(elicitationState, formId)
  IN /\ elicitationState' = outcome.state
     /\ ret' = outcome.result
     /\ call' = [op |-> "startElicitation", formId |-> formId]
     /\ UNCHANGED <<discoveryState, lastIndex, requestText, formSchema>>

GetCurrentQuestion ==
  LET outcome == Elicitation_getCurrentQuestion(elicitationState)
  IN /\ elicitationState' = outcome.state
     /\ ret' = outcome.result
     /\ call' = [op |-> "getCurrentQuestion"]
     /\ UNCHANGED <<discoveryState, lastIndex, requestText, formSchema>>

ProcessAnswer(answer) ==
  LET outcome == Elicitation_processAnswer(elicitationState, answer)
  IN /\ elicitationState' = outcome.state
     /\ ret' = outcome.result
     /\ call' = [op |-> "processAnswer", answer |-> answer]
     /\ UNCHANGED <<discoveryState, lastIndex, requestText, formSchema>>

GetElicitationState ==
  LET outcome == getElicitationState(elicitationState)
  IN /\ elicitationState' = outcome.state
     /\ ret' = outcome.result
     /\ call' = [op |-> "getElicitationState"]
     /\ UNCHANGED <<discoveryState, lastIndex, requestText, formSchema>>

GetProgress ==
  LET outcome == Elicitation_getProgress(elicitationState)
  IN /\ elicitationState' = outcome.state
     /\ ret' = outcome.result
     /\ call' = [op |-> "getProgress"]
     /\ UNCHANGED <<discoveryState, lastIndex, requestText, formSchema>>

ResetElicitation ==
  LET outcome == resetElicitation(elicitationState)
  IN /\ elicitationState' = outcome.state
     /\ ret' = outcome.result
     /\ call' = [op |-> "resetElicitation"]
     /\ UNCHANGED <<discoveryState, lastIndex, requestText, formSchema>>

GetFormSummary ==
  LET outcome == Elicitation_getFormSummary(elicitationState)
  IN /\ elicitationState' = outcome.state
     /\ ret' = outcome.result
     /\ call' = [op |-> "getFormSummary"]
     /\ UNCHANGED <<discoveryState, lastIndex, requestText, formSchema>>

NextElicitation ==
  \/ \E formId \in FormIds : StartElicitation(formId)
  \/ GetCurrentQuestion
  \/ \E answer \in AnswersFor(elicitationState) : ProcessAnswer(answer)
  \/ GetElicitationState
  \/ GetProgress
  \/ ResetElicitation
  \/ GetFormSummary

SpecElicitation == Init /\ [][NextElicitation]_vars

StartDiscovery ==
  LET outcome == startDiscovery(discoveryState)
  IN /\ discoveryState' = outcome.state
     /\ ret' = outcome.result
     /\ call' = [op |-> "startDiscovery"]
     /\ UNCHANGED <<elicitationState, lastIndex, requestText, formSchema>>

GetDiscoveryQuestion ==
  LET outcome == Outcome(discoveryState, Discovery_getCurrentQuestion(discoveryState))
  IN /\ discoveryState' = outcome.state
     /\ ret' = outcome.result
     /\ call' = [op |-> "getCurrentQuestion"]
     /\ UNCHANGED <<elicitationState, lastIndex, requestText, formSchema>>

ProcessDiscoveryAnswer(answer) ==
  LET outcome == Discovery_processAnswer(discoveryState, answer)
  IN /\ discoveryState' = outcome.state
     /\ ret' = outcome.result
     /\ call' = [op |-> "processAnswer", answer |-> answer]
     /\ UNCHANGED <<elicitationState, lastIndex, requestText, formSchema>>

GetDiscoveryState ==
  LET outcome == getDiscoveryState(discoveryState)
  IN /\ discoveryState' = outcome.state
     /\ ret' = outcome.result
     /\ call' = [op |-> "getDiscoveryState"]
     /\ UNCHANGED <<elicitationState, lastIndex, requestText, formSchema>>

GetDiscoveryProgress ==
  LET outcome == Discovery_getProgress(discoveryState)
  IN /\ discoveryState' = outcome.state
     /\ ret' = outcome.result
     /\ call' = [op |-> "getProgress"]
     /\ UNCHANGED <<elicitationState, lastIndex, requestText, formSchema>>

ResetDiscovery ==
  LET outcome == resetDiscovery(discoveryState)
  IN /\ discoveryState' = outcome.state
     /\ ret' = outcome.result
     /\ call' = [op |-> "resetDiscovery"]
     /\ UNCHANGED <<elicitationState, lastIndex, requestText, formSchema>>

GetDiscoverySummary ==
  LET outcome == Discovery_getFormSummary(discoveryState)
  IN /\ discoveryState' = outcome.state
     /\ ret' = outcome.result
     /\ call' = [op |-> "getFormSummary"]
     /\ UNCHANGED <<elicitationState, lastIndex, requestText, formSchema>>

NextDiscovery ==
  \/ StartDiscovery
  \/ GetDiscoveryQuestion
  \/ \E answer \in DiscoveryAnswers : ProcessDiscoveryAnswer(answer)
  \/ GetDiscoveryState
  \/ GetDiscoveryProgress
  \/ ResetDiscovery
  \/ GetDiscoverySummary

SpecDiscovery == Init /\ [][NextDiscovery]_vars

\* the matcher is loaded, no engine holds a session, and a text is at hand
InitMatcher ==
  /\ elicitationState = Null
  /\ discoveryState = Null
  /\ lastIndex = InitialLastIndex
  /\ requestText \in MatcherInputs
  /\ formSchema = EmptySchema
  /\ call = [op |-> "constructor"]
  /\ ret = Null

AnalyzeUserIntent ==
  LET outcome == analyzeUserIntent(lastIndex, requestText)
  IN /\ lastIndex' = outcome.state
     /\ ret' = outcome.result
     /\ call' = [op |-> "analyzeUserIntent"]
     /\ UNCHANGED <<elicitationState, discoveryState, requestText, formSchema>>

SelectBestForm ==
  LET outcome == selectBestForm(lastIndex, requestText)
  IN /\ lastIndex' = outcome.state
     /\ ret' = outcome.result
     /\ call' = [op |-> "selectBestForm"]
     /\ UNCHANGED <<elicitationState, discoveryState, requestText, formSchema>>

GetFormSuggestions(maxSuggestions) ==
  LET outcome == getFormSuggestions(lastIndex, requestText, maxSuggestions)
  IN /\ lastIndex' = outcome.state
     /\ ret' = outcome.result
     /\ call' = [op |-> "getFormSuggestions", maxSuggestions |-> maxSuggestions]
     /\ UNCHANGED <<elicitationState, discoveryState, requestText, formSchema>>

NextMatcher ==
  \/ AnalyzeUserIntent
  \/ SelectBestForm
  \/ \E maxSuggestions \in MaxSuggestionsChoices : GetFormSuggestions(maxSuggestions)

SpecMatcher == InitMatcher /\ [][NextMatcher]_vars

\* an engine has been constructed over a template with the schema at hand,
\* and an answer is at hand
InitValidator ==
  /\ elicitationState = Null
  /\ discoveryState = Null
  /\ lastIndex = InitialLastIndex
  /\ requestText \in ValidatorAnswers
  /\ formSchema \in ValidatorSchemas
  /\ call = [op |-> "constructor"]
  /\ ret = Null

ConvertSchemaToQuestions ==
  /\ ret' = convertSchemaToQuestions(formSchema)
  /\ call' = [op |-> "convertSchemaToQuestions"]
  /\ UNCHANGED <<elicitationState, discoveryState, lastIndex, requestText, formSchema>>

\* validateAnswer on the i-th question of the schema
ValidateAnswer(i) ==
  /\ ret' = validateAnswer(convertSchemaToQuestions(formSchema)[i], requestText)
  /\ call' = [op |-> "validateAnswer",
              question |-> convertSchemaToQuestions(formSchema)[i],
              answer |-> requestText]
  /\ UNCHANGED <<elicitationState, discoveryState, lastIndex, requestText, formSchema>>

NextValidator ==
  \/ ConvertSchemaToQuestions
  \/ \E i \in 1..Len(formSchema.properties) : ValidateAnswer(i)

SpecValidator == InitValidator /\ [][NextValidator]_vars

\* the catalog is loaded and an id is at hand
InitCatalog ==
  /\ elicitationState = Null
  /\ discoveryState = Null
  /\ lastIndex = InitialLastIndex
  /\ requestText \in CatalogLookups
  /\ formSchema = EmptySchema
  /\ call = [op |-> "constructor"]
  /\ ret = Null

GetAvailableForms ==
  /\ ret' = getAvailableForms
  /\ call' = [op |-> "getAvailableForms"]
  /\ UNCHANGED <<elicitationState, discoveryState, lastIndex, requestText, formSchema>>

GetFormTemplate ==
  /\ ret' = getFormTemplate(requestText)
  /\ call' = [op |-> "getFormTemplate", formId |-> requestText]
  /\ UNCHANGED <<elicitationState, discoveryState, lastIndex, requestText, formSchema>>

NextCatalog ==
  \/ GetAvailableForms
  \/ GetFormTemplate

SpecCatalog == InitCatalog /\ [][NextCatalog]_vars

\* one process holds the two engines and the matcher
InitSystem ==
  /\ elicitationState = Null
  /\ discoveryState = Null
  /\ lastIndex = InitialLastIndex
  /\ requestText \in SystemTexts
  /\ formSchema = EmptySchema
  /\ call = [op |-> "constructor"]
  /\ ret = Null

NextSystem ==
  \/ \E formId \in SystemFormIds : StartElicitation(formId)
  \/ GetCurrentQuestion
  \/ \E answer \in SystemAnswersFor(elicitationState) : ProcessAnswer(answer)
  \/ GetElicitationState
  \/ ResetElicitation
  \/ GetFormSummary
  \/ StartDiscovery
  \/ GetDiscoveryQuestion
  \/ \E answer \in SystemDiscoveryAnswers : ProcessDiscoveryAnswer(answer)
  \/ GetDiscoveryState
  \/ ResetDiscovery
  \/ GetDiscoverySummary
  \/ AnalyzeUserIntent
  \/ GetFormSuggestions(MaxSuggestionsBound)

SpecSystem == InitSystem /\ [][NextSystem]_vars

\* the servers' tools over the engines and the matcher: the discovery tools
\* of the server with guided discovery and the elicitation tools of the
\* server with form completion
InitServer ==
  /\ elicitationState = Null
  /\ discoveryState = Null
  /\ lastIndex = InitialLastIndex
  /\ requestText \in ServerTexts
  /\ formSchema = EmptySchema
  /\ call = [op |-> "constructor"]
  /\ ret = Null

\* the effect of a handler that consults the matcher
Replied(handled) ==
  /\ discoveryState' = handled.state
  /\ lastIndex' = handled.lastIndex
  /\ ret' = handled.response

\* the effect of a handler over the discovery engine
RepliedDiscovery(outcome) ==
  /\ discoveryState' = outcome.state
  /\ ret' = outcome.result

\* the effect of a handler over the elicitation engine
RepliedElicitation(outcome) ==
  /\ elicitationState' = outcome.state
  /\ ret' = outcome.result

CallSuggestForms(max_suggestions) ==
  /\ Replied(suggest_forms(discoveryState, lastIndex, requestText,
                           max_suggestions))
  /\ call' = [op |-> "suggest_forms", user_input |-> requestText,
              max_suggestions |-> max_suggestions]
  /\ UNCHANGED <<elicitationState, requestText, formSchema>>

CallAnalyzeIntent ==
  /\ Replied(analyze_intent(discoveryState, lastIndex, requestText))
  /\ call' = [op |-> "analyze_intent", user_input |-> requestText]
  /\ UNCHANGED <<elicitationState, requestText, formSchema>>

CallStartFormDiscovery ==
  /\ RepliedDiscovery(start_form_discovery(discoveryState))
  /\ call' = [op |-> "start_form_discovery"]
  /\ UNCHANGED <<elicitationState, lastIndex, requestText, formSchema>>

CallGetDiscoveryQuestion ==
  /\ RepliedDiscovery(get_discovery_question(discoveryState))
  /\ call' = [op |-> "get_discovery_question"]
  /\ UNCHANGED <<elicitationState, lastIndex, requestText, formSchema>>

CallAnswerDiscoveryQuestion(answer) ==
  /\ RepliedDiscovery(answer_discovery_question(discoveryState, answer))
  /\ call' = [op |-> "answer_discovery_question", answer |-> answer]
  /\ UNCHANGED <<elicitationState, lastIndex, requestText, formSchema>>

CallResetDiscovery ==
  /\ RepliedDiscovery(reset_discovery(discoveryState))
  /\ call' = [op |-> "reset_discovery"]
  /\ UNCHANGED <<elicitationState, lastIndex, requestText, formSchema>>

CallStartElicitation(form_id) ==
  /\ RepliedElicitation(start_elicitation(elicitationState, form_id))
  /\ call' = [op |-> "start_elicitation", form_id |-> form_id]
  /\ UNCHANGED <<discoveryState, lastIndex, requestText, formSchema>>

CallAnswerQuestion(answer) ==
  /\ RepliedElicitation(answer_question(elicitationState, answer))
  /\ call' = [op |-> "answer_question", answer |-> answer]
  /\ UNCHANGED <<discoveryState, lastIndex, requestText, formSchema>>

NextServer ==
  \/ \E max_suggestions \in ServerMaxSuggestions :
       CallSuggestForms(max_suggestions)
  \/ CallAnalyzeIntent
  \/ CallStartFormDiscovery
  \/ CallGetDiscoveryQuestion
  \/ \E answer \in SystemDiscoveryAnswers : CallAnswerDiscoveryQuestion(answer)
  \/ CallResetDiscovery
  \/ \E form_id \in ServerFormIds : CallStartElicitation(form_id)
  \/ \E answer \in SystemAnswersFor(elicitationState) : CallAnswerQuestion(answer)

SpecServer == InitServer /\ [][NextServer]_vars

\* an elicitation engine constructed with one template of its caller's
InitEngine ==
  /\ elicitationState = Null
  /\ discoveryState = Null
  /\ lastIndex = InitialLastIndex
  /\ requestText = ""
  /\ formSchema \in EngineSchemas
  /\ call = [op |-> "constructor"]
  /\ ret = Null

StartElicitationIn(formId) ==
  /\ RepliedElicitation(startElicitationIn(EngineTemplates(formSchema),
                                           elicitationState, formId))
  /\ call' = [op |-> "startElicitation", formId |-> formId]
  /\ UNCHANGED <<discoveryState, lastIndex, requestText, formSchema>>

NextEngine ==
  \/ \E formId \in {CustomFormId, UnknownFormId} : StartElicitationIn(formId)
  \/ GetCurrentQuestion
  \/ \E answer \in AnswersFor(elicitationState) : ProcessAnswer(answer)
  \/ GetElicitationState
  \/ GetProgress
  \/ ResetElicitation
  \/ GetFormSummary

SpecEngine == InitEngine /\ [][NextEngine]_vars

(***************************************************************************)
(* Properties of the elicitation engine (checked under SpecElicitation)    *)
(***************************************************************************)
\* the question on display in a state: the one processAnswer would validate
\* against (Null when there is no session or the session is complete)
QuestionOnDisplay(state) ==
  IF state # Null /\ ~state.isComplete
     /\ state.currentQuestionIndex < Len(state.questions)
  THEN state.questions[state.currentQuestionIndex + 1]
  ELSE Null

\* this step is a call of processAnswer that meets a question on display
AnswersAQuestion ==
  /\ call'.op = "processAnswer"
  /\ QuestionOnDisplay(elicitationState) # Null

\* C1: whenever the answer fails validation for the current question, the
\* call returns success = false with the validator's (non-empty) error message
\* and the session (cursor, answers, isComplete and the rest) is exactly as
\* it was before the call.
C1_ValidationFailureKeepsSession ==
  [][ (AnswersAQuestion
       /\ ~validateAnswer(QuestionOnDisplay(elicitationState), call'.answer).valid)
      => /\ ret'.success = FALSE
         /\ ret'.error =
              validateAnswer(QuestionOnDisplay(elicitationState), call'.answer).error
         /\ ret'.error # ""
         /\ elicitationState' = elicitationState
         /\ QuestionOnDisplay(elicitationState') = QuestionOnDisplay(elicitationState)
    ]_vars

\* C1 witness: a choice question has just rejected an answer, after two
\* answers had been accepted, and the two answers are still there
C1_Witness ==
  /\ call.op = "processAnswer"
  /\ ret.success = FALSE
  /\ elicitationState # Null
  /\ elicitationState.currentQuestionIndex = 2
  /\ Len(elicitationState.answers) = 2
  /\ QuestionOnDisplay(elicitationState).type = "select"
  /\ ret.error = "Please select one of: Full surrender, Partial surrender"

\* C2: a valid answer at cursor i (0 <= i < N) moves the cursor to exactly
\* i + 1, changes the answer of no other field, leaves the question list and
\* the formId unchanged, and returns completed = true iff i + 1 = N.
C2_ValidAnswerAdvancesByOne ==
  [][ (AnswersAQuestion
       /\ validateAnswer(QuestionOnDisplay(elicitationState), call'.answer).valid)
      => LET i == elicitationState.currentQuestionIndex
             N == Len(elicitationState.questions)
             field == QuestionOnDisplay(elicitationState).fieldName
         IN /\ 0 <= i /\ i < N
            /\ ret'.success = TRUE
            /\ elicitationState'.currentQuestionIndex = i + 1
            /\ \A j \in 1..N :
                 LET other == elicitationState.questions[j].fieldName
                 IN other # field =>
                      /\ ObjectHas(elicitationState'.answers, other)
                           = ObjectHas(elicitationState.answers, other)
                      /\ ObjectHas(elicitationState.answers, other) =>
                           ObjectGet(elicitationState'.answers, other)
                             = ObjectGet(elicitationState.answers, other)
            /\ elicitationState'.questions = elicitationState.questions
            /\ elicitationState'.formId = elicitationState.formId
            /\ ret'.completed = (i + 1 = N)
    ]_vars

\* C2 witness: the last question of a five-question form has just been
\* answered, and the call reported completion
C2_Witness ==
  /\ call.op = "processAnswer"
  /\ ret.success = TRUE
  /\ ret.completed = TRUE
  /\ elicitationState.currentQuestionIndex = 5
  /\ Len(elicitationState.questions) = 5

\* the number of fields a catalog template declares, and how many it requires
FieldCount(formId) == Len(getFormTemplate(formId).elicitationSchema.properties)

RequiredCount(formId) == Len(getFormTemplate(formId).elicitationSchema.required)

\* the call just made was a successful processAnswer; the cursor then counts
\* the successful submissions since startElicitation
JustAnswered == call.op = "processAnswer" /\ ret.success = TRUE

\* C3 as stated: with K the number of required fields of the template,
\* isComplete is true after the K-th successful submission and false after
\* every earlier one.
C3_CompleteAfterRequiredCount ==
  JustAnswered =>
    (elicitationState.isComplete
       <=> elicitationState.currentQuestionIndex >= RequiredCount(elicitationState.formId))

\* C3 amended: with N the number of declared fields of the template (required
\* or not), a fresh session is not complete, isComplete is true after the
\* N-th successful submission and false after every earlier one; N is the
\* number of required fields for every catalog template but surrender-form,
\* which declares one optional field.
C3_CompleteAfterFieldCount ==
  /\ (call.op = "startElicitation" /\ ret.success = TRUE) =>
       (~elicitationState.isComplete /\ elicitationState.currentQuestionIndex = 0)
  /\ JustAnswered =>
       (elicitationState.isComplete
          <=> elicitationState.currentQuestionIndex = FieldCount(elicitationState.formId))
  /\ \A i \in 1..Len(FORM_TEMPLATES) :
       LET id == FORM_TEMPLATES[i].id
       IN FieldCount(id) = IF id = "surrender-form" THEN RequiredCount(id) + 1
                           ELSE RequiredCount(id)

\* C3 witness: the fifth answer has just completed a surrender-form session,
\* which has four required fields
C3_Witness ==
  /\ JustAnswered
  /\ elicitationState.formId = "surrender-form"
  /\ elicitationState.currentQuestionIndex = 5
  /\ elicitationState.isComplete
  /\ RequiredCount("surrender-form") = 4

\* the question that the call just made has answered
AnsweredQuestion == elicitationState.questions[elicitationState.currentQuestionIndex]

\* C4: after every successful processAnswer the value stored under the
\* answered field is exactly the validator's processedValue for that answer
\* (so a blank answer to an optional field is stored as the empty string).
C4_StoresProcessedValue ==
  JustAnswered =>
    ObjectGet(elicitationState.answers, AnsweredQuestion.fieldName)
      = validateAnswer(AnsweredQuestion, call.answer).processedValue

\* the answer of processAnswer when there is no session
NoActiveSession == [success |-> FALSE, error |-> "No active elicitation session"]

\* the answer of processAnswer when the session is complete
NoCurrentQuestion ==
  [success |-> FALSE, error |-> "No current question or elicitation complete"]

\* C5: startElicitation with an id that is not in the catalog fails with the
\* template-not-found error, and if there was no session before the call
\* there is none after it: getCurrentQuestion and getFormSummary give null and
\* processAnswer fails with the no-active-session error for every answer.
C5_UnknownIdCreatesNoSession ==
  [][ (call'.op = "startElicitation"
       /\ \A i \in 1..Len(FORM_TEMPLATES) : FORM_TEMPLATES[i].id # call'.formId)
      => /\ ret' = [success |-> FALSE,
                    error |-> "Form template not found: " \o call'.formId]
         /\ elicitationState = Null =>
              /\ Elicitation_getCurrentQuestion(elicitationState').result = Null
              /\ Elicitation_getFormSummary(elicitationState').result = Null
              /\ getElicitationState(elicitationState').result = Null
              /\ \A answer \in ElicitationAnswers :
                   Elicitation_processAnswer(elicitationState', answer).result
                     = NoActiveSession
    ]_vars

\* C5 witness: a start with the unknown id has just failed with no session
C5_Witness ==
  /\ call = [op |-> "startElicitation", formId |-> UnknownFormId]
  /\ ret.success = FALSE
  /\ elicitationState = Null

FreshElicitation(formId) ==
  [formId |-> formId,
   formTitle |-> getFormTemplate(formId).title,
   currentQuestionIndex |-> 0,
   answers |-> <<>>,
   isComplete |-> FALSE,
   questions |-> convertSchemaToQuestions(getFormTemplate(formId).elicitationSchema)]

\* C15: the engine holds one session: a successful startElicitation(id),
\* whatever session was held before it (none, one in progress, a complete
\* one), leaves a fresh session for id: cursor 0, no answers, isComplete
\* false, the question list of id's schema; no earlier answer is in it.
C15_StartReplacesSession ==
  [][ (call'.op = "startElicitation" /\ ret'.success)
      => /\ HasTemplate(call'.formId)
         /\ elicitationState' = FreshElicitation(call'.formId)
         /\ ObjectKeys(elicitationState'.answers) = <<>>
         /\ Elicitation_getFormSummary(elicitationState').result
              = [formId |-> call'.formId,
                 formTitle |-> getFormTemplate(call'.formId).title,
                 answers |-> <<>>,
                 completed |-> FALSE]
    ]_vars

\* C15 witness: startElicitation('loan-form') has just succeeded and the
\* session is the fresh loan-form session, its first question on display
C15_Witness ==
  /\ call = [op |-> "startElicitation", formId |-> "loan-form"]
  /\ ret = [success |-> TRUE]
  /\ elicitationState = FreshElicitation("loan-form")
  /\ QuestionOnDisplay(elicitationState) = elicitationState.questions[1]

(***************************************************************************)
(* Properties of the discovery engine (checked under SpecDiscovery)        *)
(***************************************************************************)
\* this step is a call of processAnswer that meets a current question
AnswersANode ==
  /\ call'.op = "processAnswer"
  /\ Discovery_getCurrentQuestion(discoveryState) # Null

\* the answer is a key of the node's followUp mapping
IsFollowUpKey(node, answer) ==
  "followUp" \in DOMAIN node /\ \E i \in 1..Len(node.followUp) : node.followUp[i].key = answer

\* C7: an answer that is not a key of the current node's followUp mapping
\* (any answer at a node with no mapping) makes the call succeed, sets
\* currentQuestionId to null and isComplete to true, and returns
\* completed = true together with the (non-empty) suggestions.
C7_UnmappedAnswerCompletes ==
  [][ (AnswersANode
       /\ ~IsFollowUpKey(Discovery_getCurrentQuestion(discoveryState), call'.answer))
      => /\ ret'.success = TRUE
         /\ discoveryState'.currentQuestionId = NullId
         /\ discoveryState'.isComplete
         /\ ret'.completed = TRUE
         /\ "suggestedForms" \in DOMAIN ret'
         /\ ret'.suggestedForms = discoveryState'.suggestedForms
         /\ Len(ret'.suggestedForms) > 0
    ]_vars

\* the follow-up node of each of the six root options
RootFollowUp(option) ==
  CASE option = "Change beneficiary information" -> "beneficiary-type"
    [] option = "Take a loan against my policy" -> "loan-type"
    [] option = "Surrender my policy" -> "surrender-type"
    [] option = "Change policy details" -> "change-type"
    [] option = "Apply for reinstatement" -> "reinstatement-reason"
    [] option = "Other" -> "describe-need"

RootOptions ==
  {"Change beneficiary information", "Take a loan against my policy",
   "Surrender my policy", "Change policy details", "Apply for reinstatement",
   "Other"}

\* C8: after startDiscovery the current question is the root node 'intent';
\* submitting one of the six root options exactly as written moves the
\* session to the follow-up node mapped to that option, which is a node of
\* the graph, with isComplete still false, completed = false returned and no
\* suggestions returned.
C8_RootOptionMovesToFollowUp ==
  [][ /\ call'.op = "startDiscovery" =>
           /\ Discovery_getCurrentQuestion(discoveryState') # Null
           /\ Discovery_getCurrentQuestion(discoveryState').id = "intent"
           /\ Discovery_getCurrentQuestion(discoveryState') = discoveryQuestions[1]
      /\ (AnswersANode
           /\ discoveryState.currentQuestionId = "intent"
           /\ call'.answer \in RootOptions)
          => /\ discoveryState'.currentQuestionId = RootFollowUp(call'.answer)
             /\ Discovery_getCurrentQuestion(discoveryState') # Null
             /\ Discovery_getCurrentQuestion(discoveryState').id = RootFollowUp(call'.answer)
             /\ ~discoveryState'.isComplete
             /\ discoveryState'.suggestedForms = <<>>
             /\ ret' = [success |-> TRUE, completed |-> FALSE]
    ]_vars

\* C8 witness: 'Change beneficiary information' has just been submitted at
\* the root and the session stands at beneficiary-type
C8_Witness ==
  /\ call = [op |-> "processAnswer", answer |-> "Change beneficiary information"]
  /\ ret = [success |-> TRUE, completed |-> FALSE]
  /\ discoveryState # Null
  /\ discoveryState.currentQuestionId = "beneficiary-type"
  /\ discoveryState.answers = <<Entry("intent", "Change beneficiary information")>>
  /\ ~discoveryState.isComplete

\* the root answers that the suggestion resolution maps to a form
CanonicalIntents ==
  {"Change beneficiary information", "Take a loan against my policy",
   "Surrender my policy", "Change policy details", "Apply for reinstatement"}

\* the answer recorded for a node, Undefined when the node was not answered
AnswerTo(state, nodeId) ==
  IF ObjectHas(state.answers, nodeId) THEN ObjectGet(state.answers, nodeId) ELSE Undefined

\* some keyword of some catalog template occurs in the collected answers
KeywordOccurs(state) ==
  \E i \in 1..Len(FORM_TEMPLATES) : \E k \in 1..Len(FORM_TEMPLATES[i].keywords) :
    includes(toLowerCase(join(ObjectValues(state.answers), " ")),
             toLowerCase(FORM_TEMPLATES[i].keywords[k]))

DiscoveryComplete == discoveryState # Null /\ discoveryState.isComplete

\* C9: whenever a discovery session is complete its suggestedForms list is
\* non-empty; when the root answer is none of the canonical options and no
\* template keyword occurs in the collected answers, the list is exactly the
\* single default <<"beneficiary-change">>.
C9_SuggestionsNeverEmpty ==
  DiscoveryComplete =>
    /\ Len(discoveryState.suggestedForms) > 0
    /\ (AnswerTo(discoveryState, "intent") \notin CanonicalIntents
         /\ ~KeywordOccurs(discoveryState))
        => discoveryState.suggestedForms = <<"beneficiary-change">>

\* C9 witness: a session completed by 'Other' and a text that holds no
\* keyword, with the default suggestion
C9_Witness ==
  /\ DiscoveryComplete
  /\ AnswerTo(discoveryState, "intent") = "Other"
  /\ AnswerTo(discoveryState, "describe-need") = "something else entirely"
  /\ ~KeywordOccurs(discoveryState)
  /\ discoveryState.suggestedForms = <<"beneficiary-change">>

\* the four canonical root answers that map to one form whatever follows
DirectMapping ==
  /\ AnswerTo(discoveryState, "intent") = "Change beneficiary information" =>
       discoveryState.suggestedForms = <<"beneficiary-change">>
  /\ AnswerTo(discoveryState, "intent") = "Take a loan against my policy" =>
       discoveryState.suggestedForms = <<"loan-form">>
  /\ AnswerTo(discoveryState, "intent") = "Apply for reinstatement" =>
       discoveryState.suggestedForms = <<"reinstatement-application">>
  /\ AnswerTo(discoveryState, "intent") = "Change policy details" =>
       discoveryState.suggestedForms = <<"amendment-request">>
  /\ AnswerTo(discoveryState, "intent") \in CanonicalIntents =>
       Len(discoveryState.suggestedForms) = 1

\* C10 as stated: the root answer decides the suggestion; under 'Surrender
\* my policy' a full surrender gives surrender-form and the partial-surrender
\* and non-forfeiture answers are distinguished from it; one suggestion in
\* each canonical case.
C10_PartialDistinguished ==
  DiscoveryComplete =>
    /\ DirectMapping
    /\ AnswerTo(discoveryState, "intent") = "Surrender my policy" =>
         /\ AnswerTo(discoveryState, "surrender-type") = "Full surrender (cancel policy)"
              => discoveryState.suggestedForms = <<"surrender-form">>
         /\ AnswerTo(discoveryState, "surrender-type")
                \in {"Partial surrender (withdraw some cash value)",
                     "Non-forfeiture option (keep some benefits)"}
              => discoveryState.suggestedForms # <<"surrender-form">>

\* C10 amended: the root answer decides the suggestion; under 'Surrender my
\* policy' only the non-forfeiture answer is distinguished (it gives
\* non-forfeiture-option), and a full surrender, a partial surrender and any
\* other second answer give surrender-form; one suggestion in each canonical
\* case, whatever the second answer contains.
C10_OnlyNonForfeitureDistinguished ==
  DiscoveryComplete =>
    /\ DirectMapping
    /\ AnswerTo(discoveryState, "intent") = "Surrender my policy" =>
         discoveryState.suggestedForms =
           IF AnswerTo(discoveryState, "surrender-type")
                = "Non-forfeiture option (keep some benefits)"
           THEN <<"non-forfeiture-option">>
           ELSE <<"surrender-form">>

\* C10 witness: a session completed by 'Surrender my policy' and the
\* partial-surrender answer suggests surrender-form
C10_Witness ==
  /\ DiscoveryComplete
  /\ AnswerTo(discoveryState, "intent") = "Surrender my policy"
  /\ AnswerTo(discoveryState, "surrender-type")
       = "Partial surrender (withdraw some cash value)"
  /\ discoveryState.suggestedForms = <<"surrender-form">>

\* the answers of the discovery engine's processAnswer when it refuses
NoActiveDiscovery == [success |-> FALSE, error |-> "No active discovery session"]

NoDiscoveryQuestion == [success |-> FALSE, error |-> "No current question found"]

\* C11: the discovery engine's processAnswer fails with the no-active-session
\* error when there is no session (before startDiscovery, after
\* resetDiscovery) and with the no-current-question error when the session is
\* complete; in both cases answers, suggestedForms, isComplete and
\* currentQuestionId are unchanged, whatever the answer.
C11_DiscoverySessionErrors ==
  [][ call'.op = "processAnswer"
      => /\ discoveryState = Null => ret' = NoActiveDiscovery
         /\ call.op \in {"constructor", "resetDiscovery"} => ret' = NoActiveDiscovery
         /\ DiscoveryComplete => ret' = NoDiscoveryQuestion
         /\ (discoveryState = Null \/ DiscoveryComplete) => discoveryState' = discoveryState
         /\ ret' \in {NoActiveDiscovery, NoDiscoveryQuestion} =>
              discoveryState' = discoveryState
    ]_vars

\* C11 witness: an answer has just been refused by a complete session, which
\* still holds its two answers and its suggestion
C11_Witness ==
  /\ call.op = "processAnswer"
  /\ ret = NoDiscoveryQuestion
  /\ DiscoveryComplete
  /\ Len(discoveryState.answers) = 2
  /\ discoveryState.suggestedForms = <<"loan-form">>
  /\ discoveryState.currentQuestionId = NullId

\* the session of the state is open and not complete
DiscoveryInProgress == discoveryState # Null /\ ~discoveryState.isComplete

\* C12: suggestions are computed once per session: suggestedForms is empty
\* in every state whose session is not complete; the step that sets
\* isComplete is a processAnswer that sets suggestedForms (to the resolution
\* of the answers collected, which it also returns); and from a complete
\* session no operation other than startDiscovery and resetDiscovery changes
\* suggestedForms or answers.
C12_SuggestionsComputedOnce ==
  [][ /\ DiscoveryInProgress => discoveryState.suggestedForms = <<>>
      /\ DiscoveryInProgress' => discoveryState'.suggestedForms = <<>>
      /\ (~DiscoveryComplete /\ DiscoveryComplete')
          => /\ call'.op = "processAnswer"
             /\ DiscoveryInProgress
             /\ discoveryState'.suggestedForms
                  = suggestFormsBasedOnAnswers(discoveryState'.answers)
             /\ discoveryState'.suggestedForms # <<>>
             /\ ret'.suggestedForms = discoveryState'.suggestedForms
      /\ (DiscoveryComplete /\ call'.op \notin {"startDiscovery", "resetDiscovery"})
          => /\ DiscoveryComplete'
             /\ discoveryState'.suggestedForms = discoveryState.suggestedForms
             /\ discoveryState'.answers = discoveryState.answers
    ]_vars

\* C12 witness: the answer 'my annuity' has just completed a session that
\* began with 'Other', and the suggestion was set in that step
C12_Witness ==
  /\ call = [op |-> "processAnswer", answer |-> "my annuity"]
  /\ DiscoveryComplete
  /\ AnswerTo(discoveryState, "intent") = "Other"
  /\ discoveryState.suggestedForms = <<"annuity-contract-change">>
  /\ ret = [success |-> TRUE, completed |-> TRUE,
            suggestedForms |-> <<"annuity-contract-change">>]

\* the session startDiscovery leaves
FreshDiscovery ==
  [currentQuestionId |-> "intent", answers |-> <<>>,
   isComplete |-> FALSE, suggestedForms |-> <<>>]

\* C13: startDiscovery, called with no session, with a session in progress
\* or with a complete session, succeeds and leaves the session equal to
\* {currentQuestionId: 'intent', answers: {}, isComplete: false,
\* suggestedForms: []}: nothing of the previous session survives.
C13_StartDiscoveryResets ==
  [][ call'.op = "startDiscovery"
      => /\ ret' = [success |-> TRUE]
         /\ discoveryState' = FreshDiscovery
         /\ ObjectKeys(discoveryState'.answers) = <<>>
         /\ Discovery_getProgress(discoveryState').result
              = [questionsAnswered |-> 0, formsNarrowed |-> 0, isComplete |-> FALSE]
    ]_vars

\* C13 witness: startDiscovery has just been called and the session is the
\* fresh one, with the root node on display
C13_Witness ==
  /\ call = [op |-> "startDiscovery"]
  /\ ret = [success |-> TRUE]
  /\ discoveryState = FreshDiscovery
  /\ Discovery_getCurrentQuestion(discoveryState) = discoveryQuestions[1]

(***************************************************************************)
(* Properties of the intent matcher (checked under SpecMatcher)            *)
(***************************************************************************)

\* analyzeUserIntent has just returned the candidates for requestText
Analyzed == call.op = "analyzeUserIntent"

\* the text as the matcher reads it
Normalized == trim(toLowerCase(requestText))

Forms == 1..Len(FORM_KEYWORDS)

\* how many keywords of entry f occur in the text
KeywordCount(f) ==
  Cardinality({k \in 1..Len(FORM_KEYWORDS[f].keywords) :
                 includes(Normalized, toLowerCase(FORM_KEYWORDS[f].keywords[k]))})

\* how many patterns of entry f match the text
PatternCount(f) ==
  Cardinality({p \in 1..Len(FORM_KEYWORDS[f].patterns) :
                 RegExpBuiltinExec(FORM_KEYWORDS[f].patterns[p], Normalized, 0) # -1})

\* raw of C16, in thousandths
RawScore(f, bonus) ==
  300 * KeywordCount(f) + 400 * PatternCount(f) + (IF bonus THEN 500 ELSE 0)

\* the positions of entry f's template in the returned list
PlacesOf(f) == {i \in 1..Len(ret) : ret[i].formId = FORM_KEYWORDS[f].formId}

\* the keywords of entry f that none of its patterns matches
KeywordsWithoutPattern(f) ==
  {k \in 1..Len(FORM_KEYWORDS[f].keywords) :
     \A p \in 1..Len(FORM_KEYWORDS[f].patterns) :
       RegExpBuiltinExec(FORM_KEYWORDS[f].patterns[p],
                         toLowerCase(FORM_KEYWORDS[f].keywords[k]), 0) = -1}

\* C16: for every text and every template, with raw = 0.3 * (keywords found)
\* + 0.4 * (patterns matched) + 0.5 if the text contains the id phrase the
\* matcher looks for, the template is returned (once) exactly when raw > 0.2
\* and its confidence is then min(raw, 1.0), so it lies in (0.2, 1.0]; a
\* template with no signal is not returned and the empty text gives the empty
\* list.  (At most two keywords of a template escape all its patterns, so
\* the rounded sum 0.3 + 0.3 + 0.3 is never a returned confidence.)
C16_InclusionAndCap ==
  Analyzed =>
    /\ \A f \in Forms :
         LET raw == RawScore(f, includes(Normalized, IdPhrase(FORM_KEYWORDS[f].formId)))
         IN /\ Cardinality(PlacesOf(f)) = (IF raw > 200 THEN 1 ELSE 0)
            /\ raw = 0 => PlacesOf(f) = {}
            /\ \A i \in PlacesOf(f) :
                 /\ ret[i].confidence = (IF raw < 1000 THEN raw ELSE 1000)
                 /\ ret[i].confidence > 200
                 /\ ret[i].confidence <= 1000
            /\ Cardinality(KeywordsWithoutPattern(f)) <= 2
    /\ Len(ret) <= Len(FORM_KEYWORDS)
    /\ Normalized = "" => ret = <<>>

\* C16 witness: 'I want to change my beneficiary' scores 1.1 for
\* beneficiary-change, returned with confidence 1.0, and nothing else
C16_Witness ==
  /\ Analyzed
  /\ requestText = "I want to change my beneficiary"
  /\ RawScore(1, FALSE) = 1100
  /\ Len(ret) = 1
  /\ ret[1].formId = "beneficiary-change"
  /\ ret[1].confidence = 1000

\* the place of a form id in the iteration over FORM_KEYWORDS
CatalogIndex(formId) == CHOOSE f \in Forms : FORM_KEYWORDS[f].formId = formId

\* C17: the candidates are returned by confidence in non-increasing order,
\* and two candidates of equal confidence stand in catalog iteration order.
C17_SortedStable ==
  Analyzed =>
    \A i \in 1..Len(ret) : \A j \in 1..Len(ret) :
      i < j =>
        /\ ret[i].confidence >= ret[j].confidence
        /\ ret[i].confidence = ret[j].confidence =>
             CatalogIndex(ret[i].formId) < CatalogIndex(ret[j].formId)

\* C17 witness: a text with four candidates: loan-form at 1.0, then three
\* at 0.7 in catalog order
C17_Witness ==
  /\ Analyzed
  /\ requestText = "cancel policy or take a policy loan, then restore policy with a rider"
  /\ Len(ret) = 4
  /\ ret[1].formId = "loan-form" /\ ret[1].confidence = 1000
  /\ ret[2].formId = "reinstatement-application" /\ ret[2].confidence = 700
  /\ ret[3].formId = "surrender-form" /\ ret[3].confidence = 700
  /\ ret[4].formId = "amendment-request" /\ ret[4].confidence = 700

\* C18: for every template id the +0.5 bonus is applied exactly when the
\* normalized text contains the id with all of its separators replaced by
\* spaces ('loan form', 'non forfeiture option', 'annuity contract change'):
\* a template is returned exactly when the score with that bonus exceeds 0.2,
\* with that score, capped, as its confidence.
C18_BonusOnIdPhrase ==
  Analyzed =>
    \A f \in Forms :
      LET raw == RawScore(f, includes(Normalized,
                                      IdPhrase_AllSeparators(FORM_KEYWORDS[f].formId)))
      IN /\ (PlacesOf(f) # {}) <=> (raw > 200)
         /\ \A i \in PlacesOf(f) :
              ret[i].confidence = (IF raw < 1000 THEN raw ELSE 1000)

\* C19: 'I want to change my beneficiary' ranks beneficiary-change first
\* with confidence above 0.7, and the loan requests rank loan-form first.
C19_ExamplesRankFirst ==
  (Analyzed \/ call.op = "selectBestForm") =>
    LET best == IF Analyzed THEN (IF Len(ret) > 0 THEN ret[1] ELSE Null) ELSE ret
    IN /\ requestText = "I want to change my beneficiary" =>
            /\ best # Null
            /\ best.formId = "beneficiary-change"
            /\ best.confidence > 700
       /\ requestText \in {"I need a loan against my policy for medical expenses",
                            "I need a loan against my policy"} =>
            /\ best # Null
            /\ best.formId = "loan-form"
            /\ best.confidence > 700

\* C19 witness: selectBestForm has just answered the loan request of the
\* test script with loan-form at confidence 1.0
C19_Witness ==
  /\ call.op = "selectBestForm"
  /\ requestText = "I need a loan against my policy for medical expenses"
  /\ ret # Null
  /\ ret.formId = "loan-form"
  /\ ret.confidence = 1000
  /\ ret.matchedKeywords = <<"loan">>

(***************************************************************************)
(* Properties of the engines and the matcher side by side (checked under   *)
(* SpecSystem)                                                             *)
(***************************************************************************)
\* what the elicitation engine answers when it holds no session
ElicitationIsReset(state) ==
  /\ state = Null
  /\ Elicitation_getCurrentQuestion(state).result = Null
  /\ Elicitation_getFormSummary(state).result = Null
  /\ getElicitationState(state).result = Null
  /\ \A answer \in ElicitationAnswers :
       Elicitation_processAnswer(state, answer) = Outcome(Null, NoActiveSession)

\* what the discovery engine answers when it holds no session
DiscoveryIsReset(state) ==
  /\ state = Null
  /\ Discovery_getCurrentQuestion(state) = Null
  /\ Discovery_getFormSummary(state).result = Null
  /\ getDiscoveryState(state).result = Null
  /\ \A answer \in DiscoveryAnswers :
       Discovery_processAnswer(state, answer) = Outcome(Null, NoActiveDiscovery)

\* C14: reset is unconditional in both engines: after resetDiscovery (resp.
\* resetElicitation) from any state the engine holds no session, so
\* getCurrentQuestion, the summary and the state accessor give null and
\* processAnswer fails with the no-active-session error; and an engine
\* without a session stays so until a startDiscovery (resp. a successful
\* startElicitation).
C14_ResetUnconditional ==
  [][ /\ call'.op = "resetDiscovery" => DiscoveryIsReset(discoveryState')
      /\ call'.op = "resetElicitation" => ElicitationIsReset(elicitationState')
      /\ (discoveryState = Null /\ call'.op # "startDiscovery")
          => DiscoveryIsReset(discoveryState')
      /\ (elicitationState = Null
           /\ ~(call'.op = "startElicitation" /\ ret' = [success |-> TRUE]))
          => ElicitationIsReset(elicitationState')
    ]_vars

\* C14 witness: resetDiscovery has just dropped the discovery session while
\* the elicitation engine holds a complete session with its answers
C14_Witness ==
  /\ call = [op |-> "resetDiscovery"]
  /\ discoveryState = Null
  /\ elicitationState # Null
  /\ elicitationState.isComplete
  /\ Len(elicitationState.answers) = 4

\* this step is a call of the matcher
MatcherCall == call'.op \in {"analyzeUserIntent", "getFormSuggestions"}

\* C20: the matcher is a pure function: whatever engine and matcher calls
\* came before, analyzeUserIntent returns for a text the list (formId,
\* confidence, matchedKeywords, in order) that it returns for that text when
\* it is the first call after loading, and getFormSuggestions the head of
\* that list; the call changes no engine session and nothing the catalog's
\* patterns hold.
C20_MatcherIsPure ==
  [][ MatcherCall
      => /\ call'.op = "analyzeUserIntent" =>
              ret' = analyzeUserIntent(InitialLastIndex, requestText).result
         /\ call'.op = "getFormSuggestions" =>
              ret' = slice(analyzeUserIntent(InitialLastIndex, requestText).result,
                           call'.maxSuggestions)
         /\ elicitationState' = elicitationState
         /\ discoveryState' = discoveryState
         /\ lastIndex' = lastIndex
         /\ lastIndex' = InitialLastIndex
    ]_vars

\* C20 witness: analyzeUserIntent has just returned loan-form for 'loan form'
\* while the discovery engine holds a complete session and the elicitation
\* engine a session with two answers
C20_Witness ==
  /\ call = [op |-> "analyzeUserIntent"]
  /\ requestText = "loan form"
  /\ Len(ret) = 1
  /\ ret[1].formId = "loan-form"
  /\ DiscoveryComplete
  /\ elicitationState # Null
  /\ Len(elicitationState.answers) = 2

(***************************************************************************)
(* Properties of the template catalog (checked under SpecCatalog)          *)
(***************************************************************************)
\* the names a schema declares in properties
DeclaredNames(template) ==
  {template.elicitationSchema.properties[k].name :
     k \in 1..Len(template.elicitationSchema.properties)}

\* every name in required is declared in properties
RequiredAreDeclared(template) ==
  \A k \in 1..Len(template.elicitationSchema.required) :
    template.elicitationSchema.required[k] \in DeclaredNames(template)

\* C21: the ids getAvailableForms returns are pairwise distinct; getFormTemplate
\* resolves each of them to a template that has that id, and every other id
\* to not-found; in every template each name in required is declared in
\* properties.
C21_CatalogRoundTrip ==
  /\ call.op = "getAvailableForms" =>
       /\ \A i, j \in 1..Len(ret) : ret[i] = ret[j] => i = j
       /\ \A i \in 1..Len(ret) :
            /\ getFormTemplate(ret[i]) # Null
            /\ getFormTemplate(ret[i]).id = ret[i]
            /\ RequiredAreDeclared(getFormTemplate(ret[i]))
  /\ call.op = "getFormTemplate" =>
       IF arrayIncludes(getAvailableForms, call.formId)
       THEN ret # Null /\ ret.id = call.formId /\ RequiredAreDeclared(ret)
       ELSE ret = Null

\* C21 witness: a listed id has just been resolved to its template, which
\* declares five fields and requires four of them
C21_Witness ==
  /\ call = [op |-> "getFormTemplate", formId |-> "surrender-form"]
  /\ ret # Null
  /\ ret.id = "surrender-form"
  /\ Len(ret.elicitationSchema.required) = 4
  /\ Len(ret.elicitationSchema.properties) = 5

(***************************************************************************)
(* Properties of the answer validator and the question converter (checked  *)
(* under SpecValidator)                                                    *)
(***************************************************************************)
\* the call just made was validateAnswer
Validated == call.op = "validateAnswer"

\* the answer holds nothing but white space
Blank(answer) == \A k \in 1..Len(answer) : IsWhiteSpace(CharAt(answer, k))

\* the call just made was validateAnswer on a question of that type with an
\* answer that is not blank
ValidatedAs(type) ==
  Validated /\ call.question.type = type /\ ~Blank(call.answer)

\* C22: the empty check comes before the dispatch on the type: whatever the
\* type of the question, an empty or blank answer fails with the
\* required-field error when the question is required, and is valid with
\* the empty value when it is not.
C22_EmptyCheckFirst ==
  (Validated /\ Blank(call.answer)) =>
    IF call.question.required
    THEN ret = [valid |-> FALSE, error |-> "This field is required"]
    ELSE ret = [valid |-> TRUE, processedValue |-> ""]

\* C22 witness: an optional date question has just taken a blank answer as
\* valid with the empty value
C22_Witness ==
  /\ Validated
  /\ call.question.type = "date"
  /\ ~call.question.required
  /\ call.answer = " \t\n"
  /\ ret = [valid |-> TRUE, processedValue |-> ""]

\* the answer is that word, ignoring case and surrounding white space
IsWord(answer, word) == toLowerCase(trim(answer)) = word

\* C23: a boolean answer is accepted exactly when, ignoring case and
\* surrounding white space, it is true/yes/y/1 (stored as 'true') or
\* false/no/n/0 (stored as 'false'); every other non-empty answer is
\* rejected.
C23_BooleanWords ==
  ValidatedAs("boolean") =>
    IF \E word \in {"true", "yes", "y", "1"} : IsWord(call.answer, word)
    THEN ret = [valid |-> TRUE, processedValue |-> "true"]
    ELSE IF \E word \in {"false", "no", "n", "0"} : IsWord(call.answer, word)
    THEN ret = [valid |-> TRUE, processedValue |-> "false"]
    ELSE ret.valid = FALSE

\* C23 witness: a padded 'Yes' has just been stored as 'true' by a question
\* whose schema declares type boolean next to format date and an enum
C23_Witness ==
  /\ ValidatedAs("boolean")
  /\ call.question.fieldName = "flagOrDate"
  /\ call.answer = " Yes "
  /\ ret = [valid |-> TRUE, processedValue |-> "true"]

\* what the claim says of a choice question whose options that equal the
\* answer (under the comparison the claim names) are those at matches: the
\* answer is accepted exactly when there is one, the stored value is then
\* the option as declared, and the error of a rejection lists every option
ChoiceOutcome(matches) ==
  IF matches # {}
  THEN /\ ret.valid
       /\ \E i \in matches : ret.processedValue = call.question.options[i]
  ELSE /\ ~ret.valid
       /\ \A i \in 1..Len(call.question.options) :
            includes(ret.error, call.question.options[i])

\* C24 as stated: an answer to a choice question is accepted exactly when it
\* equals one of the declared options ignoring letter case; the stored value
\* is then the option in its declared casing; a rejection lists every
\* declared option.
C24_OptionIgnoringCase ==
  ValidatedAs("select") =>
    ChoiceOutcome({i \in 1..Len(call.question.options) :
                     toLowerCase(call.question.options[i]) = toLowerCase(call.answer)})

\* C24 amended: an answer to a choice question is accepted exactly when,
\* with its surrounding white space removed, it equals one of the declared
\* options ignoring letter case; the stored value is then the option in its
\* declared casing; a rejection lists every declared option.
C24_OptionIgnoringCaseAndPadding ==
  ValidatedAs("select") =>
    ChoiceOutcome({i \in 1..Len(call.question.options) :
                     toLowerCase(call.question.options[i])
                       = toLowerCase(trim(call.answer))})

\* C24 witness: an option typed in another casing has just been stored in its
\* declared casing
C24_Witness ==
  /\ ValidatedAs("select")
  /\ call.answer = "full SURRENDER"
  /\ ret = [valid |-> TRUE, processedValue |-> "Full surrender"]

\* the length bound the question declares under that name is met by length
\* L (a bound that is not declared is met by every length)
MeetsMin(question, L) ==
  "minLength" \in DOMAIN question.validation => question.validation.minLength <= L

MeetsMax(question, L) ==
  "maxLength" \in DOMAIN question.validation => L <= question.validation.maxLength

\* C25: for every declared minLength m and maxLength M, 0 included, a
\* non-empty answer to a text question is accepted if and only if its
\* trimmed length L satisfies m <= L <= M, and the accepted value is the
\* trimmed answer; a bound that is not declared is not enforced.
C25_LengthBoundsEnforced ==
  ValidatedAs("text") =>
    IF /\ MeetsMin(call.question, Len(trim(call.answer)))
       /\ MeetsMax(call.question, Len(trim(call.answer)))
    THEN ret = [valid |-> TRUE, processedValue |-> trim(call.answer)]
    ELSE ret.valid = FALSE

\* the number written by the n digits of s from position i on
RECURSIVE NumberAt(_, _, _)
NumberAt(s, i, n) ==
  IF n = 0 THEN 0
  ELSE 10 * NumberAt(s, i, n - 1) + DigitValue(CharAt(s, i + n - 1))

IsLeapYear(year) == year % 4 = 0 /\ (year % 100 # 0 \/ year % 400 = 0)

DaysInMonth(year, month) ==
  IF month = 2 THEN (IF IsLeapYear(year) THEN 29 ELSE 28)
  ELSE IF month \in {4, 6, 9, 11} THEN 30
  ELSE 31

\* the answer has the form YYYY-MM-DD and names a day of the calendar
IsCalendarDate(answer) ==
  /\ Len(answer) = 10
  /\ CharAt(answer, 5) = "-" /\ CharAt(answer, 8) = "-"
  /\ \A k \in (1..10) \ {5, 8} : CharAt(answer, k) \in {CharAt(Digits, d) : d \in 1..10}
  /\ NumberAt(answer, 6, 2) \in 1..12
  /\ NumberAt(answer, 9, 2) \in 1..DaysInMonth(NumberAt(answer, 1, 4), NumberAt(answer, 6, 2))

\* C26: an answer to a date question is accepted if and only if it has the
\* form YYYY-MM-DD and names a real calendar date (so 2024-02-30 and
\* 2023-02-29 are rejected); an accepted date is stored unchanged.
C26_RealCalendarDate ==
  ValidatedAs("date") =>
    IF IsCalendarDate(call.answer)
    THEN ret = [valid |-> TRUE, processedValue |-> call.answer]
    ELSE ret.valid = FALSE

\* what a schema field declares
IsBoolean(field) == field.type = "boolean"

HasDateFormat(field) == "format" \in DOMAIN field /\ field.format = "date"

HasEnum(field) == "enum" \in DOMAIN field

\* C27: the questions derived from a schema are one per declared field, in
\* declaration order, with required = (the field's name is in the required
\* list) and with the type boolean if the schema type is boolean, else date
\* if the format is date, else select (with the enum as options) if an enum
\* is declared, else text.
C27_QuestionsFollowSchema ==
  call.op = "convertSchemaToQuestions" =>
    /\ Len(ret) = Len(formSchema.properties)
    /\ \A i \in 1..Len(formSchema.properties) :
         LET field == formSchema.properties[i]
         IN /\ ret[i].fieldName = field.name
            /\ ret[i].required
                 = (\E k \in 1..Len(formSchema.required) : formSchema.required[k] = field.name)
            /\ IsBoolean(field) => ret[i].type = "boolean"
            /\ (~IsBoolean(field) /\ HasDateFormat(field)) => ret[i].type = "date"
            /\ (~IsBoolean(field) /\ ~HasDateFormat(field) /\ HasEnum(field)) =>
                 (ret[i].type = "select" /\ ret[i].options = field.enum)
            /\ (~IsBoolean(field) /\ ~HasDateFormat(field) /\ ~HasEnum(field)) =>
                 ret[i].type = "text"
            /\ ret[i].type # "select" => "options" \notin DOMAIN ret[i]

\* C27 witness: the seven fields of beneficiary-change have just become seven
\* questions in the order of declaration, the fifth a choice, the sixth a
\* date and the seventh a text
C27_Witness ==
  /\ call.op = "convertSchemaToQuestions"
  /\ formSchema = FORM_TEMPLATES[1].elicitationSchema
  /\ [i \in 1..Len(ret) |-> ret[i].fieldName]
       = <<"policyNumber", "policyholderName", "currentBeneficiary",
           "newBeneficiaryName", "relationship", "beneficiaryDob", "percentage">>
  /\ [i \in 1..Len(ret) |-> ret[i].type]
       = <<"text", "text", "text", "text", "select", "date", "text">>
  /\ \A i \in 1..Len(ret) : ret[i].required

(***************************************************************************)
(* Numeric bounds (checked under SpecElicitation)                          *)
(***************************************************************************)
\* the schema field behind the question on display
FieldOnDisplay(state) ==
  getFormTemplate(state.formId).elicitationSchema.properties[state.currentQuestionIndex + 1]

\* this step is a call of processAnswer, with an answer that is not blank, that
\* meets a question whose schema field has type number
AnswersANumberField ==
  /\ AnswersAQuestion
  /\ FieldOnDisplay(elicitationState).type = "number"
  /\ ~Blank(call'.answer)

\* C28: a number-typed field becomes a text question whose validation record
\* holds the field's minimum and maximum, and every non-empty answer to it,
\* numeric or not, inside the bounds or not, is accepted and moves the cursor
\* on by one.
C28_NumericBoundsNotEnforced ==
  [][ AnswersANumberField
      => /\ QuestionOnDisplay(elicitationState).type = "text"
         /\ "minimum" \in DOMAIN QuestionOnDisplay(elicitationState).validation
         /\ "maximum" \in DOMAIN QuestionOnDisplay(elicitationState).validation
         /\ QuestionOnDisplay(elicitationState).validation.minimum
              = FieldOnDisplay(elicitationState).minimum
         /\ QuestionOnDisplay(elicitationState).validation.maximum
              = FieldOnDisplay(elicitationState).maximum
         /\ ret'.success = TRUE
         /\ elicitationState'.currentQuestionIndex
              = elicitationState.currentQuestionIndex + 1
    ]_vars

\* C28 witness: 150 has just been accepted as the percentage of a beneficiary
\* change, whose maximum is 100, and the cursor has moved past the question
C28_Witness ==
  /\ call = [op |-> "processAnswer", answer |-> "150"]
  /\ ret.success = TRUE
  /\ elicitationState.formId = "beneficiary-change"
  /\ elicitationState.currentQuestionIndex = 7
  /\ elicitationState.questions[7].validation = [minimum |-> 1, maximum |-> 100]
  /\ ObjectGet(elicitationState.answers, "percentage") = "150"

(***************************************************************************)
(* Properties of the servers' tools (checked under SpecServer)             *)
(***************************************************************************)
\* this step is a call of one of the two tools that look for forms
LooksForForms == call'.op \in {"suggest_forms", "analyze_intent"}

\* C29: after every call of suggest_forms or analyze_intent, whatever the
\* text, the confidence of the match and the session before the call (none,
\* in progress or complete), the discovery session is the fresh one: the root
\* question on display, no answers, not complete, no suggested forms.
C29_AutomaticDiscovery ==
  [][ LooksForForms
      => /\ discoveryState' = FreshDiscovery
         /\ Discovery_getCurrentQuestion(discoveryState') = discoveryQuestions[1]
         /\ ObjectKeys(discoveryState'.answers) = <<>>
         /\ ~discoveryState'.isComplete
    ]_vars

\* C29 witness: analyze_intent has just met a text with a weak match and has
\* answered with the root question of the session it started
C29_Witness ==
  /\ call = [op |-> "analyze_intent", user_input |-> "their heir"]
  /\ ret.text = "I found a few forms that might work"
  /\ ret.question = discoveryQuestions[1]
  /\ discoveryState = FreshDiscovery

\* the response a server that has served no request gives to a request
FirstResponse(request) ==
  CASE request.op = "suggest_forms" ->
         suggest_forms(Null, InitialLastIndex, request.user_input,
                       request.max_suggestions).response
    [] request.op = "analyze_intent" ->
         analyze_intent(Null, InitialLastIndex, request.user_input).response
    [] request.op = "start_form_discovery" -> start_form_discovery(Null).result
    [] request.op = "get_discovery_question" -> get_discovery_question(Null).result
    [] request.op = "answer_discovery_question" ->
         answer_discovery_question(Null, request.answer).result
    [] request.op = "reset_discovery" -> reset_discovery(Null).result
    [] request.op = "start_elicitation" ->
         start_elicitation(Null, request.form_id).result
    [] request.op = "answer_question" ->
         answer_question(Null, request.answer).result

\* C30: the response to a tool call is determined by the call's arguments
\* alone: whatever calls were served before it, it is the response the same
\* call gets from a server that has served none.
C30_StatelessDesign ==
  call.op # "constructor" => ret = FirstResponse(call)

\* the texts with which the tool acknowledges an answer
Acknowledgements ==
  {"Thank you for your answer! Let me process this",
   "Thanks for that answer! Let me ask you one more question",
   "Answer recorded"}

\* this step is a call of answer_discovery_question in which the engine's
\* processAnswer returns success = false
EngineRejectsAnswer ==
  /\ call'.op = "answer_discovery_question"
  /\ ~Discovery_processAnswer(discoveryState, call'.answer).result.success

\* C39: whenever the engine's processAnswer returns success = false (no
\* session, or no current question), answer_discovery_question reports the
\* engine's error to the caller and never an acknowledgement of the answer.
C39_ToolSurfacesFailures ==
  [][ EngineRejectsAnswer
      => /\ ret'.text \notin Acknowledgements
         /\ "error" \in DOMAIN ret'
         /\ ret'.error = Discovery_processAnswer(discoveryState, call'.answer).result.error
    ]_vars

(***************************************************************************)
(* Answers and cursor (checked under SpecElicitation)                      *)
(***************************************************************************)
\* the field names of the questions before the cursor, in question order
FieldsBeforeCursor(state) ==
  [i \in 1..state.currentQuestionIndex |-> state.questions[i].fieldName]

\* C37: in every state with a session the field names present in answers are
\* exactly those of the questions before the cursor, in question order, so
\* getProgress reports answered = currentQuestionIndex and answered +
\* remaining = total; an accepted answer adds the field of the question on
\* display and leaves the answers given before as they were.
C37_AnswersTrackCursor ==
  [][ elicitationState' # Null
      => /\ ObjectKeys(elicitationState'.answers) = FieldsBeforeCursor(elicitationState')
         /\ Elicitation_getProgress(elicitationState').result.answered
              = Len(ObjectKeys(elicitationState'.answers))
         /\ Elicitation_getProgress(elicitationState').result.answered
              + Elicitation_getProgress(elicitationState').result.remaining
              = Len(elicitationState'.questions)
         /\ Elicitation_getProgress(elicitationState').result.total
              = Len(elicitationState'.questions)
         /\ (AnswersAQuestion /\ ret'.success)
              => /\ ~ObjectHas(elicitationState.answers,
                               QuestionOnDisplay(elicitationState).fieldName)
                 /\ \A i \in 1..Len(elicitationState.answers) :
                      elicitationState'.answers[i] = elicitationState.answers[i]
    ]_vars

\* C37 witness: the optional amount of a surrender has just been left empty:
\* four fields answered, in question order, the fourth with the empty text
C37_Witness ==
  /\ call = [op |-> "processAnswer", answer |-> ""]
  /\ ret.success
  /\ elicitationState.formId = "surrender-form"
  /\ elicitationState.currentQuestionIndex = 4
  /\ ObjectKeys(elicitationState.answers) = FieldsBeforeCursor(elicitationState)
  /\ elicitationState.answers[4].value = ""
  /\ Elicitation_getProgress(elicitationState).result.answered = 4

\* this step is a startElicitation that fails while a session exists
FailedStartOverSession ==
  /\ call'.op = "startElicitation"
  /\ ~ret'.success
  /\ elicitationState # Null

\* C38: a startElicitation that fails on an unknown id while a session
\* exists leaves that session as it was (formId, cursor, answers,
\* isComplete): the same question stays on display and the session takes
\* the next answer as it would have before the call.
C38_FailedStartKeepsSession ==
  [][ FailedStartOverSession
      => /\ ret'.error = "Form template not found: " \o call'.formId
         /\ elicitationState' = elicitationState
         /\ QuestionOnDisplay(elicitationState') = QuestionOnDisplay(elicitationState)
         /\ \A answer \in AnswersFor(elicitationState) :
              Elicitation_processAnswer(elicitationState', answer)
                = Elicitation_processAnswer(elicitationState, answer)
    ]_vars

\* C38 witness: a start with the unknown id has just failed over a loan
\* session with two answers given, which still shows its third question
C38_Witness ==
  /\ call = [op |-> "startElicitation", formId |-> UnknownFormId]
  /\ ret.success = FALSE
  /\ elicitationState # Null
  /\ elicitationState.formId = "loan-form"
  /\ elicitationState.currentQuestionIndex = 2
  /\ Len(ObjectKeys(elicitationState.answers)) = 2
  /\ ~elicitationState.isComplete
  /\ QuestionOnDisplay(elicitationState) = elicitationState.questions[3]

(***************************************************************************)
(* Properties of an engine over any template (checked under SpecEngine)    *)
(***************************************************************************)
\* C31: in every state with a session over a template of N >= 0 fields the
\* cursor lies in 0..N and isComplete is true exactly when the cursor is N,
\* also right after startElicitation of a template with no fields.
C31_CompleteExactlyAtEnd ==
  elicitationState # Null
    => /\ elicitationState.currentQuestionIndex \in 0..Len(elicitationState.questions)
       /\ elicitationState.isComplete
            <=> (elicitationState.currentQuestionIndex
                   = Len(elicitationState.questions))

\* this step is a call of one of the query operations of an engine
IsQuery ==
  call'.op \in {"getCurrentQuestion", "getProgress", "getFormSummary",
                "getElicitationState", "getDiscoveryState"}

\* C33: getCurrentQuestion, getProgress, getFormSummary and the state
\* accessor leave the session as it was (cursor or current node, answers,
\* isComplete, suggestions), in every state and for every template.
C33_QueriesAreReadOnly ==
  [][ IsQuery => /\ elicitationState' = elicitationState
                 /\ discoveryState' = discoveryState
    ]_vars

(***************************************************************************)
(* Discovery and the matcher (checked under SpecDiscovery)                 *)
(***************************************************************************)
\* the matcher's keyword pass finds a keyword of the form in the text
MatcherKeywordHit(formId, text) ==
  \E i \in 1..Len(FORM_KEYWORDS) :
    /\ FORM_KEYWORDS[i].formId = formId
    /\ MatchedKeywords(FORM_KEYWORDS[i].keywords, trim(toLowerCase(text))) # <<>>

\* the catalog ids, in catalog order, for which it does
RECURSIVE MatcherKeywordForms(_, _)
MatcherKeywordForms(templates, text) ==
  IF Len(templates) = 0 THEN <<>>
  ELSE (IF MatcherKeywordHit(templates[1].id, text) THEN <<templates[1].id>> ELSE <<>>)
         \o MatcherKeywordForms(Tail(templates), text)

\* the default when the matcher finds no keyword
OrDefault(forms) == IF forms = <<>> THEN <<"beneficiary-change">> ELSE forms

\* this step answers the root question with a text that is not on its menu
AnswersRootWithFreeText ==
  /\ AnswersANode
  /\ discoveryState.currentQuestionId = "intent"
  /\ call'.answer \notin RootOptions

\* C32: a free text given as the root answer, none of the options on the
\* menu, completes the session with exactly the catalog templates for which
\* the matcher's keyword pass on that text finds a keyword, in catalog order,
\* or with the default when there is none.
C32_FallbackAgreesWithMatcher ==
  [][ AnswersRootWithFreeText
      => /\ discoveryState'.isComplete
         /\ discoveryState'.suggestedForms
              = OrDefault(MatcherKeywordForms(FORM_TEMPLATES, call'.answer))
    ]_vars

\* C34: a discovery session is never stuck: either it is complete and names
\* no current node, or it is not complete and getCurrentQuestion returns a
\* node of the graph; a successful processAnswer that reports
\* completed = false leaves a current question.
C34_NoStuckDiscovery ==
  discoveryState # Null
    => /\ \/ /\ discoveryState.isComplete
             /\ discoveryState.currentQuestionId = NullId
          \/ /\ ~discoveryState.isComplete
             /\ \E i \in 1..Len(discoveryQuestions) :
                  Discovery_getCurrentQuestion(discoveryState) = discoveryQuestions[i]
       /\ (call.op = "processAnswer" /\ ret.success /\ ~ret.completed)
            => Discovery_getCurrentQuestion(discoveryState) # Null

\* the number of answers the session has accepted since startDiscovery
AnswersAccepted == Len(ObjectKeys(discoveryState.answers))

\* C35: a discovery session is complete after at most two accepted answers
\* (the root answer and at most one follow-up answer), and after exactly
\* one when the root answer is not one of the six root options.
C35_CompleteWithinTwoAnswers ==
  discoveryState # Null
    => /\ AnswersAccepted <= 2
       /\ AnswersAccepted = 2 => discoveryState.isComplete
       /\ (AnswersAccepted >= 1
             /\ AnswerTo(discoveryState, "intent") \notin RootOptions)
            => (discoveryState.isComplete /\ AnswersAccepted = 1)

\* C36: every id discovery suggests, from the intent mapping, the keyword
\* scan or the default, is the id of a catalog template, so getFormTemplate
\* resolves it, and no id occurs twice in one list.
C36_SuggestionsAreCatalogIds ==
  discoveryState # Null
    => /\ \A i \in 1..Len(discoveryState.suggestedForms) :
            /\ HasTemplate(discoveryState.suggestedForms[i])
            /\ getFormTemplate(discoveryState.suggestedForms[i]) # Null
            /\ getFormTemplate(discoveryState.suggestedForms[i]).id
                 = discoveryState.suggestedForms[i]
       /\ \A i, j \in 1..Len(discoveryState.suggestedForms) :
            discoveryState.suggestedForms[i] = discoveryState.suggestedForms[j]
              => i = j

\* C36 witness: a free text with keywords of two templates has completed the
\* session with those two templates, each once, in catalog order
C36_Witness ==
  /\ DiscoveryComplete
  /\ AnswerTo(discoveryState, "intent") = "I want to CASH OUT and give it to my heir"
  /\ discoveryState.suggestedForms = <<"beneficiary-change", "surrender-form">>
  /\ getFormTemplate("surrender-form").id = "surrender-form"

====
